---- MODULE Spec2Model ----
(***************************************************************************)
(* Model of Storage.py: the server registry, the retrying connection      *)
(* acquisition (_connection / connect_with) and the Document entity       *)
(* (constructor, s, d, insert, update, delete, get by primary key) on top *)
(* of a RethinkDB table.  Each caller (thread of control) owns one        *)
(* Document instance slot; the backend table is shared.                   *)
(***************************************************************************)
EXTENDS Integers, Sequences, FiniteSets, TLC

(* ------------------------------ bounds -------------------------------- *)
\* primary keys are 1..MaxKey
MaxKey == 2
\* values of the user field "a" are 0..MaxVal
MaxVal == 1
\* Document calls each caller makes in one run
MaxCalls == 3
\* longest tuple passed to get() as an index value
MaxTuple == 3

Insts == {"A", "B"}
Keys == 1..MaxKey
Vals == 0..MaxVal
ServerNames == {"default"}
Details == {"d1"}
\* codes of the driver errors r.connect can raise (e.args)
ErrCodes == {1, 2}

(* --------------------------- program constants ------------------------ *)
\* errcnt at which _connection gives up (and a variant that allows one more retry)
MaxConnErrors_four == 3 + 1
MaxConnErrors == 3
\* the version _revision(True) writes
InitialVersion == 1
\* the '-' of a revision string, as a token of the string
DASH == -1
\* None as a component of an index tuple
NoneVal == -1
\* r.minval and r.maxval: below and above every value
r_minval == -2
r_maxval == 999

(* ------------------------------ dicts --------------------------------- *)
\* python dicts are functions whose domain is the set of keys present
EmptyDict == [f \in {} |-> 0]
Del(d, f) == [g \in (DOMAIN d) \ {f} |-> d[g]]
Put(d, f, v) == [g \in (DOMAIN d) \cup {f} |-> IF g = f THEN v ELSE d[g]]
Merge(d, e) == [g \in (DOMAIN d) \cup (DOMAIN e) |-> IF g \in DOMAIN e THEN e[g] ELSE d[g]]

\* the schema (struct()['tree']): the primary key, the revision and two user fields
Primary == "_id"
Fields == {"_id", "_rev", "a", "b"}

(* ----------------------- revision strings ----------------------------- *)
\* json.dumps + md5 of a field mapping: a digest that is injective on the
\* mappings of the model (md5 taken as collision free); the mapping passed in
\* never holds "_rev"
FieldCode(d, f) == IF f \in DOMAIN d THEN d[f] + 1 ELSE 0
Radix == MaxKey + MaxVal + 2
md5hex(d) == FieldCode(d, "_id") + Radix * FieldCode(d, "a") + Radix * Radix * FieldCode(d, "b")

\* '%d-%s' % (ver, hash): a string is the sequence of its tokens
FormatRev(ver, h) == <<ver, DASH, h>>

\* str.split('-')
RECURSIVE split(_)
split(s) ==
    IF \A n \in 1..Len(s) : s[n] # DASH
    THEN <<s>>
    ELSE LET n == CHOOSE m \in 1..Len(s) : s[m] = DASH /\ \A l \in 1..(m - 1) : s[l] # DASH
         IN  <<SubSeq(s, 1, n - 1)>> \o split(SubSeq(s, n + 1, Len(s)))

\* sVer, sHash = sOldRev.split('-') unpacks, and int(sVer) parses
CanUnpackRev(s) == Len(split(s)) = 2 /\ Len(split(s)[1]) = 1 /\ split(s)[1][1] >= 0
RevVer(s) == split(s)[1][1]
RevHash(s) == split(s)[2]
\* a revision string of the form "<version>-<hash>"
ValidRev(s) == CanUnpackRev(s) /\ Len(RevHash(s)) = 1 /\ RevHash(s)[1] >= 0

\* variant of _revision: init continues the numbering of a revision already held
_revision_keepver(d, ch, init) ==
    LET d0 == Del(d, "_rev")
        ver == IF "_rev" \in DOMAIN d /\ CanUnpackRev(d["_rev"]) THEN RevVer(d["_rev"]) + 1 ELSE InitialVersion
    IN  [d |-> Put(d0, "_rev", FormatRev(ver, md5hex(d0))), ch |-> ch, ret |-> "True"]

\* Document._revision(init): the instance's data and changed fields after the
\* call, and what the call returned or raised
_revision(d, ch, init) ==
    IF init
    THEN LET d0 == Del(d, "_rev")
         IN  [d |-> Put(d0, "_rev", FormatRev(InitialVersion, md5hex(d0))), ch |-> ch, ret |-> "True"]
    ELSE IF "_rev" \notin DOMAIN d
    THEN [d |-> d, ch |-> ch, ret |-> "raise:KeyError"]
    ELSE LET sOldRev == d["_rev"]
             d0 == Del(d, "_rev")
             sMD5 == md5hex(d0)
         IN  IF ~CanUnpackRev(sOldRev)
             THEN [d |-> d0, ch |-> ch, ret |-> "raise:ValueError"]
             ELSE IF RevHash(sOldRev) # <<sMD5>>
             THEN [d |-> Put(d0, "_rev", FormatRev(RevVer(sOldRev) + 1, sMD5)),
                   ch |-> IF ch.full THEN ch ELSE [ch EXCEPT !.fields = Put(@, "_rev", TRUE)],
                   ret |-> "True"]
             ELSE [d |-> d0, ch |-> ch, ret |-> "False"]

(* --------------------------- the schema ------------------------------- *)
\* a caller may pass a number as the string of its digits: str(v) is that
\* string, int(v) the number a value (already a number, or such a string) stands for
str(v) == v + 100
int(v) == IF v >= 100 THEN v - 100 ELSE v

\* tree.valid(data) for a whole record, and tree[field].valid(value): the nodes
\* of _id, a and b are integer nodes, which accept a number in range in
\* either form
FieldValid(f, v) ==
    CASE f = "_id" -> int(v) \in Keys
      [] f = "a" -> int(v) \in Vals
      [] f = "b" -> int(v) \in Vals
      [] f = "_rev" -> v \in Seq(Int)
      [] OTHER -> FALSE
TreeValid(d) == DOMAIN d \subseteq Fields /\ \A f \in DOMAIN d : FieldValid(f, d[f])
\* tree[field].clean(value): an integer node turns the string form into the
\* number (and a variant that keeps the value as passed)
FieldClean_raw(f, v) == v
FieldClean(f, v) == IF f \in {"_id", "a", "b"} THEN int(v) ELSE v
\* tree.clean(data)
TreeClean(d) == [f \in DOMAIN d |-> FieldClean(f, d[f])]

\* _dChanged: {} | {field: value, ...} | True
NoChanges == [full |-> FALSE, fields |-> EmptyDict]
AllChanged == [full |-> TRUE, fields |-> EmptyDict]
\* truth value of _dChanged
Truthy(ch) == ch.full \/ DOMAIN ch.fields # {}
\* "if isinstance(self._dChanged, dict): self._dChanged[field] = mClean" in s()
\* (and a variant that turns _dChanged into a dict again)
RecordChange_always(ch, f, v) == [full |-> FALSE, fields |-> Put(ch.fields, f, v)]
RecordChange(ch, f, v) == IF ch.full THEN ch ELSE [ch EXCEPT !.fields = Put(@, f, v)]

(* ------------------------------ backend ------------------------------- *)
\* result of table.insert(doc, conflict=...): the table afterwards and dRes;
\* newkey is the key the server generates when doc has no primary key
NoRes == [inserted |-> 0, replaced |-> 0, unchanged |-> 0, skipped |-> 0, errors |-> 0, deleted |-> 0, generated |-> 0]
BackendInsert(t, doc, conflict, newkey) ==
    IF Primary \notin DOMAIN doc
    THEN [t |-> Put(t, newkey, Put(doc, Primary, newkey)),
          res |-> [NoRes EXCEPT !.inserted = 1, !.generated = newkey]]
    ELSE LET k == doc[Primary] IN
         IF k \notin DOMAIN t
         THEN [t |-> Put(t, k, doc), res |-> [NoRes EXCEPT !.inserted = 1]]
         ELSE IF conflict = "error"
         THEN [t |-> t, res |-> [NoRes EXCEPT !.errors = 1]]
         ELSE LET new == IF conflict = "replace" THEN doc ELSE Merge(t[k], doc) IN
              IF new = t[k]
              THEN [t |-> t, res |-> [NoRes EXCEPT !.unchanged = 1]]
              ELSE [t |-> Put(t, k, new), res |-> [NoRes EXCEPT !.replaced = 1]]

\* table.get(k).update(patch)
BackendUpdate(t, k, patch) ==
    IF k \notin DOMAIN t
    THEN [t |-> t, res |-> [NoRes EXCEPT !.skipped = 1]]
    ELSE IF Merge(t[k], patch) = t[k]
    THEN [t |-> t, res |-> [NoRes EXCEPT !.unchanged = 1]]
    ELSE [t |-> Put(t, k, Merge(t[k], patch)), res |-> [NoRes EXCEPT !.replaced = 1]]

\* table.get(k).replace(doc): a missing row is inserted
BackendReplace(t, k, doc) ==
    IF k \notin DOMAIN t
    THEN [t |-> Put(t, k, doc), res |-> [NoRes EXCEPT !.inserted = 1]]
    ELSE IF doc = t[k]
    THEN [t |-> t, res |-> [NoRes EXCEPT !.unchanged = 1]]
    ELSE [t |-> Put(t, k, doc), res |-> [NoRes EXCEPT !.replaced = 1]]

\* table.get(k).delete()
BackendDelete(t, k) ==
    IF k \in DOMAIN t
    THEN [t |-> Del(t, k), res |-> [NoRes EXCEPT !.deleted = 1]]
    ELSE [t |-> t, res |-> [NoRes EXCEPT !.skipped = 1]]

\* table.get(k).pluck(['_rev']).default(None): <<>> stands for None and for {}
BackendPluckRev(t, k) ==
    IF k \in DOMAIN t /\ "_rev" \in DOMAIN t[k] THEN <<t[k]["_rev"]>> ELSE <<>>

(* ------------------------------ queries ------------------------------- *)
\* conf['indexes']: name -> definition; a definition is None/empty, a field
\* name, a list of field names, or something else
IndexDef(shape, fields) == [shape |-> shape, fields |-> fields]
GoodIndexes ==
    [n \in {"a", "ib", "ab"} |->
        CASE n = "a" -> IndexDef("none", <<>>)
          [] n = "ib" -> IndexDef("str", <<"b">>)
          [] n = "ab" -> IndexDef("list", <<"a", "b">>)]
BadIndexes == Put(GoodIndexes, "bad", IndexDef("other", <<>>))

\* an index of the backend table: the fields it is computed from, and whether
\* its keys are arrays; keys are [arr, v]: a scalar x is [FALSE, <<x>>]
Scalar(x) == [arr |-> FALSE, v |-> <<x>>]
Array(t) == [arr |-> TRUE, v |-> t]
\* the key of record rec in index ix; <<>> when rec lacks one of the fields
IndexKey(ix, rec) ==
    IF \E n \in 1..Len(ix.fields) : ix.fields[n] \notin DOMAIN rec
    THEN <<>>
    ELSE <<[arr |-> ix.arr, v |-> [n \in 1..Len(ix.fields) |-> rec[ix.fields[n]]]]>>

\* the backend's order of keys: arrays compare component by component, a
\* prefix is less than its extensions, and every array is less than every number
RECURSIVE LexLess(_, _)
LexLess(u, v) ==
    IF v = <<>> THEN FALSE
    ELSE IF u = <<>> THEN TRUE
    ELSE IF Head(u) < Head(v) THEN TRUE
    ELSE IF Head(u) > Head(v) THEN FALSE
    ELSE LexLess(Tail(u), Tail(v))
KeyLess(x, y) ==
    IF x.arr /\ y.arr THEN LexLess(x.v, y.v)
    ELSE IF ~x.arr /\ ~y.arr THEN x.v[1] < y.v[1]
    ELSE x.arr

\* the _id argument of get(): None, one value, a list or a tuple of values
IdNone == [kind |-> "none", v |-> <<>>]
IdOne(x) == [kind |-> "one", v |-> <<x>>]
IdList(t) == [kind |-> "list", v |-> t]
IdTuple(t) == [kind |-> "tuple", v |-> t]
NoQuery == [id |-> IdNone, index |-> "", filter |-> EmptyDict, limit |-> 0, orderby |-> ""]
NoPlan == [err |-> "", sel |-> "table", multiple |-> TRUE, index |-> "", keys |-> <<>>,
           lo |-> <<>>, hi |-> <<>>, filter |-> EmptyDict, limit |-> 0, orderby |-> ""]

\* the loop over the tuple in get(): the position of its None (0: it has
\* none; the code's -1), or -2 where the code raises on a second None (and a
\* variant that keeps the last None it meets)
RECURSIVE ScanNone_last(_, _, _)
ScanNone_last(id, n, iNone) ==
    IF n > Len(id) THEN iNone
    ELSE IF id[n] = NoneVal THEN ScanNone_last(id, n + 1, n)
    ELSE ScanNone_last(id, n + 1, iNone)
RECURSIVE ScanNone(_, _, _)
ScanNone(id, n, iNone) ==
    IF n > Len(id) THEN iNone
    ELSE IF id[n] = NoneVal
    THEN IF iNone # 0 THEN -2 ELSE ScanNone(id, n + 1, n)
    ELSE ScanNone(id, n + 1, iNone)

\* idMin[iNone] = r.minval and idMax[iNone] = r.maxval (and a variant that
\* closes the range at the smallest value instead)
BoundOf(id, iNone, bound) == [n \in 1..Len(id) |-> IF n = iNone THEN bound ELSE id[n]]
UpperBound_low(id, iNone) == BoundOf(id, iNone, 0)
UpperBound(id, iNone) == BoundOf(id, iNone, r_maxval)
LowerBound(id, iNone) == BoundOf(id, iNone, r_minval)

\* "isinstance(_id, (tuple,list))" on the primary-key path of get(), negated
\* (and a variant that takes every _id for a list)
SingleLookup_never(kind) == FALSE
SingleLookup(kind) == kind \notin {"tuple", "list"}

\* the cursor get() builds from its arguments, or the exception it raises
\* while building it
Translate(q) ==
    LET base == [NoPlan EXCEPT !.filter = q.filter, !.limit = q.limit, !.orderby = q.orderby] IN
    IF q.id.kind = "none" THEN base
    ELSE IF q.index # ""
    THEN IF q.id.kind = "tuple"
         THEN LET iNone == ScanNone(q.id.v, 1, 0) IN
              IF iNone = -2
              THEN [base EXCEPT !.err = "raise:StorageException:more than one None"]
              ELSE IF iNone > 0
              THEN [base EXCEPT !.sel = "between", !.index = q.index,
                                !.lo = LowerBound(q.id.v, iNone), !.hi = UpperBound(q.id.v, iNone)]
              ELSE [base EXCEPT !.sel = "get_all", !.index = q.index, !.keys = <<Array(q.id.v)>>]
         ELSE IF q.id.kind = "list"
         THEN [base EXCEPT !.sel = "get_all", !.index = q.index,
                           !.keys = [n \in 1..Len(q.id.v) |-> Scalar(q.id.v[n])]]
         ELSE [base EXCEPT !.sel = "get_all", !.index = q.index, !.keys = <<Scalar(q.id.v[1])>>]
    ELSE IF ~SingleLookup(q.id.kind)
    THEN [base EXCEPT !.sel = "get_all", !.keys = [n \in 1..Len(q.id.v) |-> Scalar(q.id.v[n])]]
    ELSE [base EXCEPT !.sel = "get", !.multiple = FALSE, !.keys = <<Scalar(q.id.v[1])>>]

\* the orders in which the backend may hand out the records of keys S
Orders(S) == {o \in [1..Cardinality(S) -> S] : \A m, n \in 1..Cardinality(S) : o[m] = o[n] => m = n}
Matches(rec, filter) == \A f \in DOMAIN filter : f \in DOMAIN rec /\ rec[f] = filter[f]
FirstN(rows, n) == IF n > 0 /\ n < Len(rows) THEN SubSeq(rows, 1, n) ELSE rows
\* order_by(field) of the backend: the rows from the least value of the field
\* on, rows of one value in the order they came in (every record of the model
\* holds the field it is ordered by)
RECURSIVE OrderBy(_, _)
OrderBy(rows, field) ==
    IF rows = <<>> THEN <<>>
    ELSE LET n == CHOOSE m \in 1..Len(rows) :
                     /\ \A j \in 1..Len(rows) : rows[m][field] <= rows[j][field]
                     /\ \A j \in 1..(m - 1) : rows[j][field] # rows[m][field]
         IN  <<rows[n]>> \o OrderBy(SubSeq(rows, 1, n - 1) \o SubSeq(rows, n + 1, Len(rows)), field)

\* oCur.run(oCon): the answer of the backend to the cursor: an error, or an
\* object, null or a sequence of records; t: the table, exists: it exists,
\* idx: its indexes, order: the order in which it hands out its records
RunQuery(plan, t, exists, idx, order) ==
    LET all == [n \in 1..Len(order) |-> t[order[n]]]
        Answer(kind, rows) == [err |-> "", kind |-> kind, rows |-> rows]
        Error(e) == [err |-> e, kind |-> "", rows |-> <<>>]
        InKeys(k) == \E n \in 1..Len(plan.keys) : plan.keys[n] = k
        ByPrimary(rec) == InKeys(Scalar(rec[Primary]))
        ByIndex(rec) == LET k == IndexKey(idx[plan.index], rec) IN k # <<>> /\ InKeys(k[1])
        Between(rec) == LET k == IndexKey(idx[plan.index], rec) IN
                        /\ k # <<>>
                        /\ ~KeyLess(k[1], Array(plan.lo))
                        /\ KeyLess(k[1], Array(plan.hi))
        Filtered(rec) == Matches(rec, plan.filter)
        \* filter(), then limit(), then order_by(), which gives an array
        Limited(rows) == FirstN(SelectSeq(rows, Filtered), plan.limit)
        Shape(rows) == IF plan.orderby = "" THEN Answer("seq", Limited(rows))
                       ELSE Answer("array", OrderBy(Limited(rows), plan.orderby))
    IN
    IF ~exists THEN Error("raise:ReqlOpFailedError:Table")
    ELSE IF plan.index # "" /\ plan.index \notin DOMAIN idx THEN Error("raise:ReqlOpFailedError:Index")
    ELSE IF plan.sel = "get"
    THEN IF DOMAIN plan.filter # {} \/ plan.limit > 0 \/ plan.orderby # ""
         \* filter(), limit() and order_by() take a sequence, get() gives an
         \* object or null
         THEN Error("raise:ReqlQueryLogicError")
         ELSE IF plan.keys[1].v[1] \in DOMAIN t
         THEN Answer("obj", <<t[plan.keys[1].v[1]]>>)
         ELSE Answer("null", <<>>)
    ELSE IF plan.sel = "table" THEN Shape(all)
    ELSE IF plan.sel = "between" THEN Shape(SelectSeq(all, Between))
    ELSE IF plan.index = "" THEN Shape(SelectSeq(all, ByPrimary))
    ELSE Shape(SelectSeq(all, ByIndex))

\* the "except r.errors.ReqlOpFailedError" clause of get() (and a variant
\* that lets every error through)
MapQueryError_raw(e) == e
MapQueryError(e) == IF e = "raise:ReqlOpFailedError:Index" THEN "raise:StorageException:no index" ELSE e

\* what get() returns for the backend's answer: None, one instance or a list
GetResult(plan, ans) ==
    IF plan.limit = 1
    \* itRes.next(): an array comes back as a list, which has no next()
    THEN IF ans.kind = "array" THEN [res |-> "raise:AttributeError", rows |-> <<>>]
         ELSE IF ans.rows = <<>> THEN [res |-> "ret:None", rows |-> <<>>]
         ELSE [res |-> "ret:instance", rows |-> <<Head(ans.rows)>>]
    ELSE IF ans.kind = "null" THEN [res |-> "ret:None", rows |-> <<>>]
    ELSE IF plan.multiple THEN [res |-> "ret:list", rows |-> ans.rows]
    ELSE [res |-> "ret:instance", rows |-> ans.rows]

\* the index index_create makes for a declared definition
Created(name, def) ==
    CASE def.shape = "none" -> [arr |-> FALSE, fields |-> <<name>>]
      [] def.shape = "str" -> [arr |-> FALSE, fields |-> def.fields]
      [] def.shape = "list" -> [arr |-> TRUE, fields |-> def.fields]
AllCreated(indexes) == [n \in DOMAIN indexes |-> Created(n, indexes[n])]

\* the loop over conf['indexes'].iteritems() in tableCreate(), in the order
\* ord of the dictionary: the indexes made, and the exception that ends it
RECURSIVE CreateIndexes(_, _, _, _)
CreateIndexes(indexes, ord, n, idx) ==
    IF n > Len(ord) THEN [idx |-> idx, err |-> "", runs |-> n - 1]
    ELSE IF indexes[ord[n]].shape = "other"
    THEN [idx |-> idx, err |-> "raise:StorageException:index format", runs |-> n - 1]
    ELSE CreateIndexes(indexes, ord, n + 1, Put(idx, ord[n], Created(ord[n], indexes[ord[n]])))

\* "except r.errors.RqlRuntimeError" in tableCreate() and tableDelete(): the
\* backend's errors are of that class, StorageException is not (and variants
\* that catch nothing, and everything)
IsRqlRuntimeError_none(e) == FALSE
IsRqlRuntimeError_all(e) == TRUE
IsRqlRuntimeError(e) ==
    e \in {"raise:ReqlOpFailedError:Table", "raise:ReqlOpFailedError:Index", "raise:ReqlOpFailedError:Database",
           "raise:ReqlOpFailedError:index_create", "raise:ReqlQueryLogicError"}
\* what the try block of tableCreate() / tableDelete() ends with
Caught(e) == IF e = "" THEN "fall" ELSE IF IsRqlRuntimeError(e) THEN "ret:False" ELSE e

(* ------------------------------- state -------------------------------- *)
VARIABLES
    msPrefix,   \* __msPrefix: the global prefix, a string (a sequence of characters)
    modcall,    \* the last call of server(), globalPrefix() or info() and what it returned
    mdServers,  \* __mdServers: server name -> connection details
    conf,       \* struct()['conf'] of the Document subtype
    tblExists,  \* the backend has the table
    bIdx,       \* the secondary indexes of the backend table
    table,      \* the backend table: primary key -> stored record
    dData,      \* _dData of each caller's instance
    dChanged,   \* _dChanged of each caller's instance
    pc,         \* where each caller is: idle | connect | scope | exit
    frame,      \* the locals of the call in progress
    acq,        \* _connection: errcnt, and the connects and sleeps made so far
    con,        \* connections opened and closed by the current or last call
    outcome,    \* what the last call of each caller returned or raised
    pre,        \* what update() / delete() saw when it was called
    writes,     \* write queries run by the current or last call
    calls,      \* Document calls each caller has begun so far
    dSince,     \* fields set on each instance since it was last written or loaded
    deleted,    \* the instance is one on which delete() has succeeded
    rows,       \* the records the last get() of each caller handed out
    runs        \* queries run by the current or last call

vars == <<msPrefix, modcall, mdServers, conf, tblExists, bIdx, table, dData, dChanged, pc, frame, acq, con, outcome, pre, writes, calls,
          dSince, deleted, rows, runs>>

NoCur == [kind |-> "none", key |-> 0, doc |-> EmptyDict]
NoFrame == [op |-> "none", conflict |-> "", replace |-> FALSE, cur |-> NoCur, sRev |-> <<>>, phase |-> "", pend |-> "", dRes |-> NoRes,
            q |-> NoQuery]
NoCall == [op |-> "none", name |-> "", details |-> "", update |-> FALSE, given |-> FALSE, v |-> <<>>,
           ok |-> FALSE, none |-> FALSE, str |-> <<>>]
NoAcq == [errcnt |-> 0, connects |-> 0, sleeps |-> 0, errs |-> <<>>]
NoCon == [opened |-> 0, closed |-> 0]
NoOutcome == [op |-> "none", res |-> "", args |-> 0, field |-> ""]
NoPre == [held |-> <<>>, stored |-> <<>>, hash |-> -1, key |-> 0, at |-> 0, ch |-> NoChanges, data |-> EmptyDict,
          q |-> NoQuery, had |-> FALSE]

Init ==
    /\ msPrefix = <<>>
    /\ modcall = NoCall
    /\ mdServers = EmptyDict
    /\ conf \in [auto_id : BOOLEAN, revisions : BOOLEAN, server : ServerNames, indexes : {EmptyDict}]
    /\ tblExists = TRUE
    /\ bIdx = EmptyDict
    /\ table = EmptyDict
    /\ dData = [i \in Insts |-> EmptyDict]
    /\ dChanged = [i \in Insts |-> NoChanges]
    /\ pc = [i \in Insts |-> "idle"]
    /\ frame = [i \in Insts |-> NoFrame]
    /\ acq = [i \in Insts |-> NoAcq]
    /\ con = [i \in Insts |-> NoCon]
    /\ outcome = [i \in Insts |-> NoOutcome]
    /\ pre = [i \in Insts |-> NoPre]
    /\ writes = [i \in Insts |-> 0]
    /\ calls = [i \in Insts |-> 0]
    /\ dSince = [i \in Insts |-> {}]
    /\ deleted = [i \in Insts |-> FALSE]
    /\ rows = [i \in Insts |-> <<>>]
    /\ runs = [i \in Insts |-> 0]

\* the instance as a call finds it
PreOf(i) == [NoPre EXCEPT !.ch = dChanged[i], !.data = dData[i]]

\* Document calls begun so far, over all callers
RECURSIVE SumCalls(_)
SumCalls(S) == IF S = {} THEN 0 ELSE LET i == CHOOSE j \in S : TRUE IN calls[i] + SumCalls(S \ {i})
CallsBegun == SumCalls(Insts)

\* a call that ends without entering connect_with; field: the field s() or d()
\* was called for
ReturnOf(i, op, res, args, field) ==
    /\ calls[i] < MaxCalls
    /\ calls' = [calls EXCEPT ![i] = @ + 1]
    /\ outcome' = [outcome EXCEPT ![i] = [op |-> op, res |-> res, args |-> args, field |-> field]]
    /\ con' = [con EXCEPT ![i] = NoCon]
    /\ acq' = [acq EXCEPT ![i] = NoAcq]
    /\ writes' = [writes EXCEPT ![i] = 0]
    /\ rows' = [rows EXCEPT ![i] = <<>>]
    /\ runs' = [runs EXCEPT ![i] = 0]
    /\ UNCHANGED <<pc, frame>>
Return(i, op, res, args) == ReturnOf(i, op, res, args, "")

\* a call that goes on to connect_with(self.__dInfo['server'])
Enter(i, fr) ==
    /\ calls[i] < MaxCalls
    /\ calls' = [calls EXCEPT ![i] = @ + 1]
    /\ pc' = [pc EXCEPT ![i] = "connect"]
    /\ frame' = [frame EXCEPT ![i] = fr]
    /\ outcome' = [outcome EXCEPT ![i] = [op |-> fr.op, res |-> "running", args |-> 0, field |-> ""]]
    /\ con' = [con EXCEPT ![i] = NoCon]
    /\ acq' = [acq EXCEPT ![i] = NoAcq]
    /\ writes' = [writes EXCEPT ![i] = 0]
    /\ rows' = [rows EXCEPT ![i] = <<>>]
    /\ runs' = [runs EXCEPT ![i] = 0]

(* --------------------------- server registry -------------------------- *)
server(name, details, update) ==
    /\ IF name \notin DOMAIN mdServers \/ update
       THEN mdServers' = Put(mdServers, name, details)
       ELSE UNCHANGED mdServers
    /\ UNCHANGED <<msPrefix, conf, tblExists, bIdx, table, dData, dChanged, pc, frame, acq, con, outcome, pre, writes,
                   calls, dSince, deleted, rows, runs>>

\* what server() returns (and a variant that always reports a store)
serverReturns_true(name, update) == TRUE
serverReturns(name, update) == name \notin DOMAIN mdServers \/ update
\* server(), with its return value on record
serverCall(name, details, update) ==
    /\ server(name, details, update)
    /\ modcall' = [NoCall EXCEPT !.op = "server", !.name = name, !.details = details, !.update = update,
                                 !.ok = serverReturns(name, update)]

(* ---------------------------- global prefix --------------------------- *)
\* "not v" for the argument of globalPrefix(): no argument (None), or the empty
\* string
NotV(given, v) == ~given \/ v = <<>>

\* globalPrefix(v); given: an argument was passed. It returns the prefix, or
\* stores v and returns None
globalPrefix(given, v) ==
    /\ \A i \in Insts : pc[i] = "idle"
    /\ IF NotV(given, v)
       THEN /\ modcall' = [NoCall EXCEPT !.op = "globalPrefix", !.given = given, !.v = v, !.str = msPrefix]
            /\ UNCHANGED msPrefix
       ELSE /\ msPrefix' = v
            /\ modcall' = [NoCall EXCEPT !.op = "globalPrefix", !.given = given, !.v = v, !.none = TRUE]
    /\ UNCHANGED <<mdServers, conf, tblExists, bIdx, table, dData, dChanged, pc, frame, acq, con, outcome, pre, writes,
                   calls, dSince, deleted, rows, runs>>

\* conf['db'], as generateConfig() sets it
ConfDb == <<"T", "e", "s", "t">>
\* dRet['db'] of Document.info(db); given: db has a 'postfix'
ResolveDb(prefix, given, postfix) ==
    LET named == IF given THEN ConfDb \o <<"_">> \o postfix ELSE ConfDb
    IN  IF prefix # <<>> THEN prefix \o named ELSE named
\* Document.info(db)
info(given, postfix) ==
    /\ \A i \in Insts : pc[i] = "idle"
    /\ modcall' = [NoCall EXCEPT !.op = "info", !.given = given, !.v = postfix,
                                 !.str = ResolveDb(msPrefix, given, postfix)]
    /\ UNCHANGED <<msPrefix, mdServers, conf, tblExists, bIdx, table, dData, dChanged, pc, frame, acq, con, outcome, pre,
                   writes, calls, dSince, deleted, rows, runs>>

(* ------------------------ local Document methods ---------------------- *)
\* a field mapping from its parts; 0, -1 and <<>> stand for "not given"
MkDoc(id, a, rv) ==
    [f \in (IF id = 0 THEN {} ELSE {"_id"}) \cup (IF a = -1 THEN {} ELSE {"a"})
            \cup (IF rv = <<>> THEN {} ELSE {"_rev"}) |->
        CASE f = "_id" -> id [] f = "a" -> a [] OTHER -> rv]
\* revision strings a caller may pass in: one without a '-'
CallerRevs == {<<7>>}

\* Document.__init__(data): a, one past the valid values, is refused by the schema
Construct(i, id, a, rv) ==
    /\ pc[i] = "idle"
    /\ IF MkDoc(id, a, rv) # EmptyDict /\ ~TreeValid(MkDoc(id, a, rv))
       THEN /\ Return(i, "init", "raise:ValueError", 0)
            /\ UNCHANGED <<dData, dChanged, dSince, deleted>>
       ELSE /\ dData' = [dData EXCEPT ![i] = TreeClean(MkDoc(id, a, rv))]
            /\ dChanged' = [dChanged EXCEPT ![i] = NoChanges]
            /\ dSince' = [dSince EXCEPT ![i] = {}]
            /\ deleted' = [deleted EXCEPT ![i] = FALSE]
            /\ Return(i, "init", "ret:self", 0)
    /\ pre' = [pre EXCEPT ![i] = NoPre]
    /\ UNCHANGED <<msPrefix, modcall, mdServers, conf, tblExists, bIdx, table>>

\* Document.s(field, value)
s(i, field, value) ==
    LET arg == IF field = "_rev" THEN 0 ELSE value IN
    /\ pc[i] = "idle"
    /\ IF field \notin Fields
       THEN /\ ReturnOf(i, "s", "raise:KeyError", arg, field)
            /\ UNCHANGED <<dData, dChanged, dSince>>
       ELSE IF ~FieldValid(field, value)
       THEN /\ ReturnOf(i, "s", "raise:ValueError", arg, field)
            /\ UNCHANGED <<dData, dChanged, dSince>>
       ELSE LET mClean == FieldClean(field, value) IN
            /\ dData' = [dData EXCEPT ![i] = Put(@, field, mClean)]
            /\ dChanged' = [dChanged EXCEPT ![i] = RecordChange(@, field, mClean)]
            /\ dSince' = [dSince EXCEPT ![i] = @ \cup {field}]
            /\ ReturnOf(i, "s", "ret:self", arg, field)
    /\ pre' = [pre EXCEPT ![i] = NoPre]
    /\ UNCHANGED <<msPrefix, modcall, mdServers, conf, tblExists, bIdx, table, deleted>>

\* Document.d(field)
d(i, field) ==
    /\ pc[i] = "idle"
    /\ IF field \notin DOMAIN dData[i]
       THEN /\ ReturnOf(i, "d", "raise:KeyError", 0, field)
            /\ UNCHANGED <<dData, dChanged, dSince>>
       ELSE /\ dData' = [dData EXCEPT ![i] = Del(@, field)]
            /\ dChanged' = [dChanged EXCEPT ![i] = AllChanged]
            /\ dSince' = [dSince EXCEPT ![i] = @ \cup {field}]
            /\ ReturnOf(i, "d", "ret:self", 0, field)
    /\ pre' = [pre EXCEPT ![i] = NoPre]
    /\ UNCHANGED <<msPrefix, modcall, mdServers, conf, tblExists, bIdx, table, deleted>>

(* ------------------------- connection manager ------------------------- *)
\* the call raises before or while acquiring: the caller is idle again
Raise(i, res, args) ==
    /\ pc' = [pc EXCEPT ![i] = "idle"]
    /\ outcome' = [outcome EXCEPT ![i] = [op |-> frame[i].op, res |-> res, args |-> args, field |-> ""]]
    /\ frame' = [frame EXCEPT ![i] = NoFrame]

\* "server not in __mdServers" in _connection (and a variant that skips the lookup)
ServerKnown_any(name) == TRUE
ServerKnown(name) == name \in DOMAIN mdServers

\* connect_with.__init__ -> _connection(server, errcnt): one r.connect attempt;
\* ok says whether the driver connects, e is the error it raises otherwise
Connect(i, ok, e) ==
    /\ pc[i] = "connect"
    /\ IF ~ServerKnown(conf.server)
       THEN /\ Raise(i, "raise:ValueError", 0)
            /\ UNCHANGED <<acq, con>>
       ELSE IF ok
       THEN /\ acq' = [acq EXCEPT ![i].connects = @ + 1]
            /\ con' = [con EXCEPT ![i].opened = @ + 1]
            /\ pc' = [pc EXCEPT ![i] = "scope"]
            /\ UNCHANGED <<frame, outcome>>
       ELSE IF acq[i].errcnt + 1 = MaxConnErrors
       THEN /\ acq' = [acq EXCEPT ![i].connects = @ + 1, ![i].errcnt = @ + 1, ![i].errs = Append(@, e)]
            /\ Raise(i, "raise:StorageException:driver", e)
            /\ UNCHANGED con
       ELSE /\ acq' = [acq EXCEPT ![i].connects = @ + 1, ![i].errcnt = @ + 1, ![i].sleeps = @ + 1,
                                 ![i].errs = Append(@, e)]
            /\ UNCHANGED <<pc, frame, outcome, con>>
    /\ UNCHANGED <<msPrefix, modcall, mdServers, conf, tblExists, bIdx, table, dData, dChanged, pre, writes, calls, dSince, deleted,
                   rows, runs>>

(* ------------------------------ the calls ----------------------------- *)
\* Document.insert(conflict), up to connect_with
insert(i, conflict) ==
    /\ pc[i] = "idle"
    /\ dData' = [dData EXCEPT ![i] =
         IF conf.revisions THEN _revision(@, dChanged[i], TRUE).d ELSE @]
    /\ Enter(i, [NoFrame EXCEPT !.op = "insert",
                 !.conflict = IF conflict \in {"error", "replace", "update"} THEN conflict ELSE "error"])
    /\ pre' = [pre EXCEPT ![i] = NoPre]
    /\ UNCHANGED <<msPrefix, modcall, mdServers, conf, tblExists, bIdx, table, dChanged, dSince, deleted>>

\* self.revision() in update(): Document has no attribute of that name (the
\* method is _revision), so the lookup raises AttributeError
revision(dd, ch) == [d |-> dd, ch |-> ch, ret |-> "raise:AttributeError"]

\* "if self.__dInfo['conf']['revisions']" in update() (and a variant that never
\* takes the branch)
UpdateChecksRevision_off == FALSE
UpdateChecksRevision == conf.revisions

\* "if not self._dChanged" in update() (and a variant that never returns early)
UpdateNothingPending_never(ch) == FALSE
UpdateNothingPending(ch) == ~Truthy(ch)

\* "if primary not in self._dData" in update() (and a variant without the check)
UpdateLacksPrimary_never(dd) == FALSE
UpdateLacksPrimary(dd) == Primary \notin DOMAIN dd

\* Document.update(replace), up to connect_with
update(i, replace) ==
    /\ pc[i] = "idle"
    /\ UNCHANGED <<msPrefix, modcall, mdServers, conf, tblExists, bIdx, table, dSince, deleted>>
    /\ IF UpdateNothingPending(dChanged[i])
       THEN /\ Return(i, "update", "ret:False", 0)
            /\ pre' = [pre EXCEPT ![i] = PreOf(i)]
            /\ UNCHANGED <<dData, dChanged>>
       ELSE IF UpdateLacksPrimary(dData[i])
       THEN /\ Return(i, "update", "raise:StorageException:no primary key", 0)
            /\ pre' = [pre EXCEPT ![i] = PreOf(i)]
            /\ UNCHANGED <<dData, dChanged>>
       ELSE IF Primary \notin DOMAIN dData[i]
       \* self._dData[primary] of the cursor
       THEN /\ Return(i, "update", "raise:KeyError", 0)
            /\ pre' = [pre EXCEPT ![i] = PreOf(i)]
            /\ UNCHANGED <<dData, dChanged>>
       ELSE LET key == dData[i][Primary]
                oCur == IF replace \/ dChanged[i].full
                        THEN [kind |-> "replace", key |-> key, doc |-> dData[i]]
                        ELSE [kind |-> "update", key |-> key, doc |-> dChanged[i].fields]
                fr == [NoFrame EXCEPT !.op = "update", !.cur = oCur, !.replace = replace]
            IN
            /\ pre' = [pre EXCEPT ![i] =
                 [PreOf(i) EXCEPT
                  !.held = IF "_rev" \in DOMAIN dData[i] THEN dData[i]["_rev"] ELSE <<>>,
                  !.stored = BackendPluckRev(table, key),
                  !.hash = md5hex(Del(dData[i], "_rev")),
                  !.key = key,
                  !.at = CallsBegun + 1]]
            /\ IF ~UpdateChecksRevision
               THEN /\ Enter(i, [fr EXCEPT !.phase = "write"])
                    /\ UNCHANGED <<dData, dChanged>>
               ELSE IF "_rev" \notin DOMAIN dData[i]
               THEN /\ Return(i, "update", "raise:KeyError", 0)
                    /\ UNCHANGED <<dData, dChanged>>
               ELSE LET sRev == dData[i]["_rev"]
                        rv == revision(dData[i], dChanged[i])
                    IN
                    /\ dData' = [dData EXCEPT ![i] = rv.d]
                    /\ dChanged' = [dChanged EXCEPT ![i] = rv.ch]
                    /\ CASE rv.ret = "True" ->
                              Enter(i, [fr EXCEPT !.sRev = sRev, !.phase = "read"])
                         [] rv.ret = "False" -> Return(i, "update", "ret:False", 0)
                         [] OTHER -> Return(i, "update", rv.ret, 0)

\* "if primary not in self._dData" in delete() (and a variant without the check)
DeleteLacksPrimary_never(dd) == FALSE
DeleteLacksPrimary(dd) == Primary \notin DOMAIN dd

\* Document.delete(), up to connect_with; key 0: the instance has no primary key
delete(i) ==
    /\ pc[i] = "idle"
    /\ IF DeleteLacksPrimary(dData[i])
       THEN Return(i, "delete", "raise:StorageException:no primary key", 0)
       ELSE Enter(i, [NoFrame EXCEPT !.op = "delete",
                      !.cur = [kind |-> "delete",
                               key |-> IF Primary \in DOMAIN dData[i] THEN dData[i][Primary] ELSE 0,
                               doc |-> EmptyDict]])
    /\ pre' = [pre EXCEPT ![i] = PreOf(i)]
    /\ UNCHANGED <<msPrefix, modcall, mdServers, conf, tblExists, bIdx, table, dData, dChanged, dSince, deleted>>

\* Document.get(_id, index, filter, orderby, limit), up to connect_with;
\* index "", orderby "": none
get(i, _id, index, filter, orderby, limit) ==
    LET q == [id |-> _id, index |-> index, filter |-> filter, limit |-> limit, orderby |-> orderby] IN
    /\ pc[i] = "idle"
    /\ IF index # "" /\ index \notin DOMAIN conf.indexes
       THEN Return(i, "get", "raise:StorageException:no index", 0)
       ELSE Enter(i, [NoFrame EXCEPT !.op = "get", !.q = q])
    /\ pre' = [pre EXCEPT ![i] = [NoPre EXCEPT !.q = q]]
    /\ UNCHANGED <<msPrefix, modcall, mdServers, conf, tblExists, bIdx, table, dData, dChanged, dSince, deleted>>

\* Document.tableCreate() and Document.tableDelete(), up to connect_with
tableCreate(i) ==
    /\ pc[i] = "idle"
    /\ Enter(i, [NoFrame EXCEPT !.op = "tableCreate"])
    /\ pre' = [pre EXCEPT ![i] = [NoPre EXCEPT !.had = tblExists]]
    /\ UNCHANGED <<msPrefix, modcall, mdServers, conf, tblExists, bIdx, table, dData, dChanged, dSince, deleted>>
tableDelete(i) ==
    /\ pc[i] = "idle"
    /\ Enter(i, [NoFrame EXCEPT !.op = "tableDelete"])
    /\ pre' = [pre EXCEPT ![i] = NoPre]
    /\ UNCHANGED <<msPrefix, modcall, mdServers, conf, tblExists, bIdx, table, dData, dChanged, dSince, deleted>>

(* ----------------------- inside the connection scope ------------------ *)
\* "if dDoc['_rev'] != sRev" in update()
OutOfSync(dDoc, sRev) == dDoc[1] # sRev

\* "if dRes['deleted'] != 1" in delete() (and a variant that takes every
\* answer for a deletion)
DeleteFailed_never(dRes) == FALSE
DeleteFailed(dRes) == dRes.deleted # 1

\* the next backend call of the call in progress, inside "with connect_with";
\* fault: the run raises a driver/runtime error (in tableCreate() and
\* tableDelete(): a runtime error of the backend: the database is missing, or
\* an index_create fails); newkey: the key the server generates for a record
\* inserted without one
Scope(i, fault, newkey) ==
    LET fr == frame[i] IN
    /\ pc[i] = "scope"
    /\ UNCHANGED <<msPrefix, modcall, mdServers, conf, dChanged, acq, con, outcome, pre, calls, dSince, deleted>>
    /\ IF fault /\ fr.op \notin {"tableCreate", "tableDelete"}
       THEN /\ frame' = [frame EXCEPT ![i].pend = "raise:ReqlError"]
            /\ pc' = [pc EXCEPT ![i] = "exit"]
            /\ runs' = [runs EXCEPT ![i] = @ + 1]
            /\ UNCHANGED <<tblExists, bIdx, table, dData, writes, rows>>
       ELSE IF ~tblExists /\ (fr.op \in {"insert", "update"} \/ (fr.op = "delete" /\ fr.cur.key # 0))
       THEN /\ frame' = [frame EXCEPT ![i].pend = "raise:ReqlOpFailedError:Table"]
            /\ pc' = [pc EXCEPT ![i] = "exit"]
            /\ runs' = [runs EXCEPT ![i] = @ + 1]
            /\ UNCHANGED <<tblExists, bIdx, table, dData, writes, rows>>
       ELSE CASE fr.op = "insert" ->
                 LET r == BackendInsert(table, dData[i], fr.conflict, newkey) IN
                 /\ Primary \in DOMAIN dData[i] \/ newkey \notin DOMAIN table
                 /\ table' = r.t
                 /\ frame' = [frame EXCEPT ![i].dRes = r.res, ![i].pend = "fall"]
                 /\ writes' = [writes EXCEPT ![i] = @ + 1]
                 /\ runs' = [runs EXCEPT ![i] = @ + 1]
                 /\ pc' = [pc EXCEPT ![i] = "exit"]
                 /\ UNCHANGED <<tblExists, bIdx, dData, rows>>
            [] fr.op = "update" /\ fr.phase = "read" ->
                 LET dDoc == BackendPluckRev(table, fr.cur.key) IN
                 /\ IF dDoc = <<>>
                    THEN /\ frame' = [frame EXCEPT ![i].pend = "ret:False"]
                         /\ pc' = [pc EXCEPT ![i] = "exit"]
                    ELSE IF OutOfSync(dDoc, fr.sRev)
                    THEN /\ frame' = [frame EXCEPT ![i].pend = "raise:StorageException:out of sync"]
                         /\ pc' = [pc EXCEPT ![i] = "exit"]
                    ELSE /\ frame' = [frame EXCEPT ![i].phase = "write"]
                         /\ UNCHANGED pc
                 /\ runs' = [runs EXCEPT ![i] = @ + 1]
                 /\ UNCHANGED <<tblExists, bIdx, table, dData, writes, rows>>
            [] fr.op = "update" /\ fr.phase = "write" ->
                 LET r == IF fr.cur.kind = "replace"
                          THEN BackendReplace(table, fr.cur.key, fr.cur.doc)
                          ELSE BackendUpdate(table, fr.cur.key, fr.cur.doc) IN
                 /\ table' = r.t
                 /\ frame' = [frame EXCEPT ![i].dRes = r.res, ![i].pend = "fall"]
                 /\ writes' = [writes EXCEPT ![i] = @ + 1]
                 /\ runs' = [runs EXCEPT ![i] = @ + 1]
                 /\ pc' = [pc EXCEPT ![i] = "exit"]
                 /\ UNCHANGED <<tblExists, bIdx, dData, rows>>
            [] fr.op = "delete" /\ fr.cur.key = 0 ->
                 \* self._dData[primary] of the query
                 /\ frame' = [frame EXCEPT ![i].pend = "raise:KeyError"]
                 /\ pc' = [pc EXCEPT ![i] = "exit"]
                 /\ UNCHANGED <<tblExists, bIdx, table, dData, writes, rows, runs>>
            [] fr.op = "delete" /\ fr.cur.key # 0 ->
                 LET r == BackendDelete(table, fr.cur.key) IN
                 /\ table' = r.t
                 /\ writes' = [writes EXCEPT ![i] = @ + 1]
                 /\ runs' = [runs EXCEPT ![i] = @ + 1]
                 /\ UNCHANGED <<tblExists, bIdx, rows>>
                 /\ pc' = [pc EXCEPT ![i] = "exit"]
                 /\ IF DeleteFailed(r.res)
                    THEN /\ frame' = [frame EXCEPT ![i].dRes = r.res, ![i].pend = "ret:False"]
                         /\ UNCHANGED dData
                    ELSE /\ frame' = [frame EXCEPT ![i].dRes = r.res, ![i].pend = "fall"]
                         /\ dData' = [dData EXCEPT ![i] = Del(@, Primary)]
            [] fr.op = "get" ->
                 \E order \in Orders(DOMAIN table) :
                    LET plan == Translate(fr.q)
                        ans == RunQuery(plan, table, tblExists, bIdx, order)
                        out == GetResult(plan, ans)
                    IN
                    /\ IF plan.err # ""
                       THEN /\ frame' = [frame EXCEPT ![i].pend = plan.err]
                            /\ UNCHANGED <<rows, runs>>
                       ELSE IF ans.err # ""
                       THEN /\ frame' = [frame EXCEPT ![i].pend = MapQueryError(ans.err)]
                            /\ runs' = [runs EXCEPT ![i] = @ + 1]
                            /\ UNCHANGED rows
                       ELSE /\ frame' = [frame EXCEPT ![i].pend = out.res,
                                                      ![i].cur.doc = IF out.res = "ret:instance"
                                                                     THEN out.rows[1] ELSE EmptyDict]
                            /\ runs' = [runs EXCEPT ![i] = @ + 1]
                            /\ rows' = [rows EXCEPT ![i] = out.rows]
                    /\ pc' = [pc EXCEPT ![i] = "exit"]
                    /\ UNCHANGED <<tblExists, bIdx, table, dData, writes>>
            [] fr.op = "tableCreate" /\ fault ->
                 \* table_create fails for want of the database, or the k-th
                 \* index_create fails
                 \E ord \in Orders(DOMAIN conf.indexes) : \E k \in 0..Len(ord) :
                    /\ IF k = 0
                       THEN /\ frame' = [frame EXCEPT ![i].pend = Caught("raise:ReqlOpFailedError:Database")]
                            /\ runs' = [runs EXCEPT ![i] = @ + 1]
                            /\ UNCHANGED <<tblExists, bIdx, table>>
                       ELSE LET made == CreateIndexes(conf.indexes, SubSeq(ord, 1, k - 1), 1, EmptyDict) IN
                            /\ ~tblExists
                            /\ tblExists' = TRUE
                            /\ table' = EmptyDict
                            /\ bIdx' = made.idx
                            /\ frame' = [frame EXCEPT ![i].pend =
                                  Caught(IF made.err # "" THEN made.err
                                         ELSE IF conf.indexes[ord[k]].shape = "other"
                                         THEN "raise:StorageException:index format"
                                         ELSE "raise:ReqlOpFailedError:index_create")]
                            /\ runs' = [runs EXCEPT ![i] = @ + 1 + made.runs + 1]
                    /\ pc' = [pc EXCEPT ![i] = "exit"]
                    /\ UNCHANGED <<dData, writes, rows>>
            [] fr.op = "tableDelete" /\ fault ->
                 /\ frame' = [frame EXCEPT ![i].pend = Caught("raise:ReqlOpFailedError:Database")]
                 /\ runs' = [runs EXCEPT ![i] = @ + 1]
                 /\ pc' = [pc EXCEPT ![i] = "exit"]
                 /\ UNCHANGED <<tblExists, bIdx, table, dData, writes, rows>>
            [] fr.op = "tableCreate" /\ ~fault ->
                 \E ord \in Orders(DOMAIN conf.indexes) :
                    /\ IF tblExists
                       THEN /\ frame' = [frame EXCEPT ![i].pend = Caught("raise:ReqlOpFailedError:Table")]
                            /\ runs' = [runs EXCEPT ![i] = @ + 1]
                            /\ UNCHANGED <<tblExists, bIdx, table>>
                       ELSE LET made == CreateIndexes(conf.indexes, ord, 1, EmptyDict) IN
                            /\ tblExists' = TRUE
                            /\ table' = EmptyDict
                            /\ bIdx' = made.idx
                            /\ frame' = [frame EXCEPT ![i].pend = Caught(made.err)]
                            /\ runs' = [runs EXCEPT ![i] = @ + 1 + made.runs]
                    /\ pc' = [pc EXCEPT ![i] = "exit"]
                    /\ UNCHANGED <<dData, writes, rows>>
            [] fr.op = "tableDelete" /\ ~fault ->
                 /\ IF tblExists
                    THEN /\ tblExists' = FALSE
                         /\ table' = EmptyDict
                         /\ bIdx' = EmptyDict
                         /\ frame' = [frame EXCEPT ![i].pend = Caught("")]
                    ELSE /\ frame' = [frame EXCEPT ![i].pend = Caught("raise:ReqlOpFailedError:Table")]
                         /\ UNCHANGED <<tblExists, bIdx, table>>
                 /\ runs' = [runs EXCEPT ![i] = @ + 1]
                 /\ pc' = [pc EXCEPT ![i] = "exit"]
                 /\ UNCHANGED <<dData, writes, rows>>

\* connect_with.__exit__: the close() calls it makes, given how the scope ended
\* (and a variant that closes only when the scope ended without an exception)
ExitCloses_cleanOnly(pend) == IF pend = "raise:ReqlError" THEN 0 ELSE 1
ExitCloses(pend) == 1

\* "self._dChanged = {}" at the end of update() (and a variant that keeps the
\* pending changes)
ClearChanged_keep(ch) == ch
ClearChanged(ch) == NoChanges

\* "self._dData[primary] = dRes['generated_keys'][0]" in insert() (and a
\* variant that leaves the instance without the key)
StoreKey_not(dd, key) == dd
StoreKey(dd, key) == Put(dd, Primary, key)

\* connect_with.__exit__ (the connection is closed, an exception goes on to
\* the caller) and what the call does after the scope
Exit(i) ==
    LET fr == frame[i]
        Done(res, args) ==
            outcome' = [outcome EXCEPT ![i] = [op |-> fr.op, res |-> res, args |-> args, field |-> ""]]
    IN
    /\ pc[i] = "exit"
    /\ con' = [con EXCEPT ![i].closed = @ + ExitCloses(fr.pend)]
    /\ pc' = [pc EXCEPT ![i] = "idle"]
    /\ frame' = [frame EXCEPT ![i] = NoFrame]
    /\ UNCHANGED <<msPrefix, modcall, mdServers, conf, tblExists, bIdx, table, acq, pre, writes, calls, rows, runs>>
    /\ IF fr.pend = "ret:instance"
       THEN /\ dData' = [dData EXCEPT ![i] = TreeClean(fr.cur.doc)]
            /\ dChanged' = [dChanged EXCEPT ![i] = NoChanges]
            /\ dSince' = [dSince EXCEPT ![i] = {}]
            /\ deleted' = [deleted EXCEPT ![i] = FALSE]
            /\ Done("ret:instance", 0)
       ELSE IF fr.pend # "fall"
       THEN /\ Done(fr.pend, 0)
            /\ UNCHANGED <<dData, dChanged, dSince, deleted>>
       ELSE CASE fr.op = "insert" ->
                 /\ UNCHANGED deleted
                 /\ IF fr.dRes.inserted # 1 /\ fr.dRes.replaced # 1
                    THEN /\ Done("ret:None", 0)
                         /\ UNCHANGED <<dData, dChanged, dSince>>
                    ELSE /\ dSince' = [dSince EXCEPT ![i] = {}]
                         /\ IF conf.auto_id
                            THEN IF fr.dRes.generated = 0
                                 THEN /\ Done("raise:KeyError", 0)
                                      /\ UNCHANGED <<dData, dChanged>>
                                 ELSE /\ dData' = [dData EXCEPT ![i] = StoreKey(@, fr.dRes.generated)]
                                      /\ Done("ret:key", fr.dRes.generated)
                                      /\ UNCHANGED dChanged
                            ELSE /\ IF Primary \in DOMAIN dData[i]
                                    THEN Done("ret:key", dData[i][Primary])
                                    ELSE Done("raise:KeyError", 0)
                                 /\ UNCHANGED <<dData, dChanged>>
            [] fr.op = "update" ->
                 /\ UNCHANGED deleted
                 /\ IF fr.dRes.replaced # 1
                    THEN /\ Done("ret:False", 0)
                         /\ UNCHANGED <<dData, dChanged, dSince>>
                    ELSE /\ dChanged' = [dChanged EXCEPT ![i] = ClearChanged(@)]
                         /\ dSince' = [dSince EXCEPT ![i] = {}]
                         /\ Done("ret:True", 0)
                         /\ UNCHANGED dData
            [] fr.op = "delete" ->
                 /\ Done("ret:True", 0)
                 /\ deleted' = [deleted EXCEPT ![i] = TRUE]
                 /\ UNCHANGED <<dData, dChanged, dSince>>
            [] fr.op \in {"tableCreate", "tableDelete"} ->
                 /\ Done("ret:True", 0)
                 /\ UNCHANGED <<dData, dChanged, dSince, deleted>>

(* --------------------------- specifications --------------------------- *)
Conflicts == {"error", "replace", "update", "ignore"}

\* the local methods, with every input
Local(i) ==
    \/ \E id \in Keys \cup {0}, a \in Vals \cup {-1, MaxVal + 1}, rv \in CallerRevs \cup {<<>>} :
          Construct(i, id, a, rv)
    \/ \E v \in Keys : s(i, "_id", v)
    \/ \E v \in Vals \cup {MaxVal + 1} : s(i, "a", v)
    \/ \E v \in CallerRevs : s(i, "_rev", v)
    \/ s(i, "zz", 0)
    \/ \E f \in {"_id", "_rev", "a", "zz"} : d(i, f)

\* the calls that go to the backend
Calls(i) ==
    \/ \E c \in Conflicts : insert(i, c)
    \/ \E replace \in BOOLEAN : update(i, replace)
    \/ delete(i)
    \/ \E id \in Keys : get(i, IdOne(id), "", EmptyDict, "", 0)

\* the steps of a call in progress; oks: can r.connect succeed, can it fail;
\* faults: can a query raise
Net(i, oks, faults) ==
    \/ \E ok \in oks, e \in ErrCodes : Connect(i, ok, e)
    \/ \E fault \in faults, newkey \in Keys : Scope(i, fault, newkey)
    \/ Exit(i)

Register ==
    \E name \in ServerNames, details \in Details, upd \in BOOLEAN :
        server(name, details, upd) /\ UNCHANGED modcall

\* one caller, a backend that answers every connect and every query
Next == Register \/ Local("A") \/ Calls("A") \/ Net("A", {TRUE}, {FALSE})
Spec == Init /\ [][Next]_vars

\* one caller, a backend whose connects and queries can fail; the instance is
\* built by the constructor and changed through its user field
LocalConn(i) ==
    \/ \E id \in Keys \cup {0}, a \in Vals \cup {-1} : Construct(i, id, a, <<>>)
    \/ \E v \in Vals : s(i, "a", v)
NextConn == Register \/ LocalConn("A") \/ Calls("A") \/ Net("A", BOOLEAN, BOOLEAN)
SpecConn == Init /\ [][NextConn]_vars

\* two callers holding copies of one persisted, revisioned record: the state
\* after A = Document({_id: 1, a: 0}), A.insert(), A = get(1), B = get(1)
StoredDoc ==
    LET d0 == MkDoc(1, 0, <<>>)
    IN  Put(d0, "_rev", FormatRev(InitialVersion, md5hex(d0)))
InitTwo ==
    /\ msPrefix = <<>>
    /\ modcall = NoCall
    /\ mdServers = [n \in ServerNames |-> "d1"]
    /\ conf \in [auto_id : BOOLEAN, revisions : {TRUE}, server : ServerNames, indexes : {EmptyDict}]
    /\ tblExists = TRUE
    /\ bIdx = EmptyDict
    /\ table = [k \in {1} |-> StoredDoc]
    /\ dData = [i \in Insts |-> StoredDoc]
    /\ dChanged = [i \in Insts |-> NoChanges]
    /\ pc = [i \in Insts |-> "idle"]
    /\ frame = [i \in Insts |-> NoFrame]
    /\ acq = [i \in Insts |-> NoAcq]
    /\ con = [i \in Insts |-> NoCon]
    /\ outcome = [i \in Insts |-> NoOutcome]
    /\ pre = [i \in Insts |-> NoPre]
    /\ writes = [i \in Insts |-> 0]
    /\ calls = [i \in Insts |-> 0]
    /\ dSince = [i \in Insts |-> {}]
    /\ deleted = [i \in Insts |-> FALSE]
    /\ rows = [i \in Insts |-> <<>>]
    /\ runs = [i \in Insts |-> 0]
\* each changes its copy through the user field
LocalTwo(i) ==
    \/ \E v \in Vals : s(i, "a", v)
    \/ d(i, "a")
\* and writes it back, overwrites the record, deletes it or reads it again
CallsTwo(i) ==
    \/ \E replace \in BOOLEAN : update(i, replace)
    \/ insert(i, "replace")
    \/ delete(i)
    \/ get(i, IdOne(1), "", EmptyDict, "", 0)
NextTwo == \E i \in Insts : (LocalTwo(i) \/ CallsTwo(i) \/ Net(i, {TRUE}, {FALSE}))
SpecTwo == InitTwo /\ [][NextTwo]_vars

\* one caller holding a copy of a persisted record, revisioned or not: the
\* state after A = Document({_id: 1, a: 0}), A.insert(), A = get(1)
StoredOne == IF conf.revisions THEN StoredDoc ELSE MkDoc(1, 0, <<>>)
InitOne ==
    /\ msPrefix = <<>>
    /\ modcall = NoCall
    /\ mdServers = [n \in ServerNames |-> "d1"]
    /\ conf \in [auto_id : BOOLEAN, revisions : BOOLEAN, server : ServerNames, indexes : {EmptyDict}]
    /\ tblExists = TRUE
    /\ bIdx = EmptyDict
    /\ table = [k \in {1} |-> StoredOne]
    /\ dData = [i \in Insts |-> StoredOne]
    /\ dChanged = [i \in Insts |-> NoChanges]
    /\ pc = [i \in Insts |-> "idle"]
    /\ frame = [i \in Insts |-> NoFrame]
    /\ acq = [i \in Insts |-> NoAcq]
    /\ con = [i \in Insts |-> NoCon]
    /\ outcome = [i \in Insts |-> NoOutcome]
    /\ pre = [i \in Insts |-> NoPre]
    /\ writes = [i \in Insts |-> 0]
    /\ calls = [i \in Insts |-> 0]
    /\ dSince = [i \in Insts |-> {}]
    /\ deleted = [i \in Insts |-> FALSE]
    /\ rows = [i \in Insts |-> <<>>]
    /\ runs = [i \in Insts |-> 0]
\* the user field is also set from the string form of a number
LocalOne(i) ==
    \/ Local(i)
    \/ \E v \in Vals \cup {MaxVal + 1} : s(i, "a", str(v))
NextOne == LocalOne("A") \/ Calls("A") \/ Net("A", {TRUE}, {FALSE})
SpecOne == InitOne /\ [][NextOne]_vars

\* one caller reading a table of records over _id, a and b (a record may lack
\* b; the keys are 1..n, and the records are listed from the least (a, b) on),
\* with the declared indexes made; a query does not depend on the ones before
\* it, and the caller has one call left
QueryRecord(k, a, b) == IF b = -1 THEN MkDoc(k, a, <<>>) ELSE Put(MkDoc(k, a, <<>>), "b", b)
InitGet ==
    /\ msPrefix = <<>>
    /\ modcall = NoCall
    /\ mdServers = [n \in ServerNames |-> "d1"]
    /\ conf = [auto_id |-> TRUE, revisions |-> FALSE, server |-> "default", indexes |-> GoodIndexes]
    /\ tblExists = TRUE
    /\ bIdx = AllCreated(GoodIndexes)
    /\ \E n \in 0..MaxKey : \E a \in [1..n -> Vals], b \in [1..n -> Vals \cup {-1}] :
          /\ \A k \in 1..(n - 1) : a[k] < a[k + 1] \/ (a[k] = a[k + 1] /\ b[k] <= b[k + 1])
          /\ table = [k \in 1..n |-> QueryRecord(k, a[k], b[k])]
    /\ dData = [i \in Insts |-> EmptyDict]
    /\ dChanged = [i \in Insts |-> NoChanges]
    /\ pc = [i \in Insts |-> "idle"]
    /\ frame = [i \in Insts |-> NoFrame]
    /\ acq = [i \in Insts |-> NoAcq]
    /\ con = [i \in Insts |-> NoCon]
    /\ outcome = [i \in Insts |-> NoOutcome]
    /\ pre = [i \in Insts |-> NoPre]
    /\ writes = [i \in Insts |-> 0]
    /\ calls = [i \in Insts |-> MaxCalls - 1]
    /\ dSince = [i \in Insts |-> {}]
    /\ deleted = [i \in Insts |-> FALSE]
    /\ rows = [i \in Insts |-> <<>>]
    /\ runs = [i \in Insts |-> 0]
\* the tuples a caller passes for an index: pairs of values and None, and
\* tuples of 0 and None up to MaxTuple long
Tuples == [1..2 -> Vals \cup {NoneVal}] \cup UNION {[1..n -> {0, NoneVal}] : n \in 1..MaxTuple}
AFilter(on) == IF on THEN Put(EmptyDict, "a", 0) ELSE EmptyDict
\* get() in each of its selector forms; the keys of a list are distinct
Gets(i) ==
    \/ \E on \in BOOLEAN, limit \in 0..2 :
          \/ get(i, IdNone, "", AFilter(on), "", limit)
          \/ \E k \in Keys \cup {MaxKey + 1} : get(i, IdOne(k), "", AFilter(on), "", limit)
          \/ \E k \in Keys : get(i, IdList(<<k, MaxKey + 1>>), "", AFilter(on), "", limit)
          \/ get(i, IdTuple(<<1, 2>>), "", AFilter(on), "", limit)
    \/ \E limit \in 0..1 :
          \/ \E v \in Vals : get(i, IdOne(v), "a", EmptyDict, "", limit) \/ get(i, IdOne(v), "ib", EmptyDict, "", limit)
          \/ get(i, IdList(<<0, 1>>), "a", EmptyDict, "", limit)
          \/ get(i, IdNone, "a", EmptyDict, "", limit)
    \/ \E t \in Tuples : get(i, IdTuple(t), "ab", EmptyDict, "", 0)
    \/ get(i, IdOne(0), "nx", EmptyDict, "", 0)
NextGet == Gets("A") \/ Net("A", {TRUE}, {FALSE})
SpecGet == InitGet /\ [][NextGet]_vars

\* one caller reading, in an order it asks for, a table of up to MaxKey + 1
\* records over _id and a
InitOrd ==
    /\ msPrefix = <<>>
    /\ modcall = NoCall
    /\ mdServers = [n \in ServerNames |-> "d1"]
    /\ conf = [auto_id |-> TRUE, revisions |-> FALSE, server |-> "default", indexes |-> EmptyDict]
    /\ tblExists = TRUE
    /\ bIdx = EmptyDict
    /\ \E n \in 0..(MaxKey + 1) : \E a \in [1..n -> Vals] :
          table = [k \in 1..n |-> QueryRecord(k, a[k], -1)]
    /\ dData = [i \in Insts |-> EmptyDict]
    /\ dChanged = [i \in Insts |-> NoChanges]
    /\ pc = [i \in Insts |-> "idle"]
    /\ frame = [i \in Insts |-> NoFrame]
    /\ acq = [i \in Insts |-> NoAcq]
    /\ con = [i \in Insts |-> NoCon]
    /\ outcome = [i \in Insts |-> NoOutcome]
    /\ pre = [i \in Insts |-> NoPre]
    /\ writes = [i \in Insts |-> 0]
    /\ calls = [i \in Insts |-> MaxCalls - 1]
    /\ dSince = [i \in Insts |-> {}]
    /\ deleted = [i \in Insts |-> FALSE]
    /\ rows = [i \in Insts |-> <<>>]
    /\ runs = [i \in Insts |-> 0]
\* the fields a caller orders by ("": no order)
OrderFields == {"", "a"}
\* get() of all records, of a list of keys and of one key, ordered or not
GetsOrd(i) ==
    \/ \E on \in BOOLEAN, orderby \in OrderFields, limit \in 0..2 :
          \/ get(i, IdNone, "", AFilter(on), orderby, limit)
          \/ \E k \in Keys : get(i, IdList(<<k, MaxKey + 1>>), "", AFilter(on), orderby, limit)
    \/ \E orderby \in OrderFields : get(i, IdOne(1), "", EmptyDict, orderby, 0)
NextOrd == GetsOrd("A") \/ Net("A", {TRUE}, {FALSE})
SpecOrd == InitOrd /\ [][NextOrd]_vars

\* one caller and a database without the table; the subtype declares no
\* index, indexes of the three recognised shapes, or one more of another shape
InitTbl ==
    /\ msPrefix = <<>>
    /\ modcall = NoCall
    /\ mdServers = [n \in ServerNames |-> "d1"]
    /\ \E au \in BOOLEAN :
          \/ conf = [auto_id |-> au, revisions |-> FALSE, server |-> "default", indexes |-> EmptyDict]
          \/ conf = [auto_id |-> au, revisions |-> FALSE, server |-> "default", indexes |-> GoodIndexes]
          \/ conf = [auto_id |-> au, revisions |-> FALSE, server |-> "default", indexes |-> BadIndexes]
    /\ tblExists = FALSE
    /\ bIdx = EmptyDict
    /\ table = EmptyDict
    /\ dData = [i \in Insts |-> EmptyDict]
    /\ dChanged = [i \in Insts |-> NoChanges]
    /\ pc = [i \in Insts |-> "idle"]
    /\ frame = [i \in Insts |-> NoFrame]
    /\ acq = [i \in Insts |-> NoAcq]
    /\ con = [i \in Insts |-> NoCon]
    /\ outcome = [i \in Insts |-> NoOutcome]
    /\ pre = [i \in Insts |-> NoPre]
    /\ writes = [i \in Insts |-> 0]
    /\ calls = [i \in Insts |-> 0]
    /\ dSince = [i \in Insts |-> {}]
    /\ deleted = [i \in Insts |-> FALSE]
    /\ rows = [i \in Insts |-> <<>>]
    /\ runs = [i \in Insts |-> 0]
CallsTbl(i) ==
    \/ tableCreate(i)
    \/ tableDelete(i)
    \/ \E k \in Keys, a \in Vals : Construct(i, k, a, <<>>)
    \/ insert(i, "error")
    \/ \E v \in Vals : get(i, IdOne(v), "a", EmptyDict, "", 0) \/ get(i, IdOne(v), "ib", EmptyDict, "", 0)
    \/ \E t \in [1..2 -> Vals] : get(i, IdTuple(t), "ab", EmptyDict, "", 0)
NextTbl == CallsTbl("A") \/ Net("A", {TRUE}, {FALSE})
SpecTbl == InitTbl /\ [][NextTbl]_vars

\* the module-level state: profiles registered under two names, prefixes set
\* and read, database names resolved
ProfileNames == {"default", "backup"}
Profiles == {"d1", "d2", "d3"}
Prefixes == {<<>>, <<"p">>, <<"q", "_">>}
Postfixes == {<<>>, <<"x">>}
CallsMod ==
    \/ \E name \in ProfileNames, details \in Profiles, upd \in BOOLEAN : serverCall(name, details, upd)
    \/ \E given \in BOOLEAN, v \in Prefixes : (given \/ v = <<>>) /\ globalPrefix(given, v)
    \/ \E given \in BOOLEAN, postfix \in Postfixes : (given \/ postfix = <<>>) /\ info(given, postfix)
SpecMod == Init /\ [][CallsMod]_vars

\* the same caller creating and dropping the table on a backend whose queries
\* can fail
CallsFault(i) == tableCreate(i) \/ tableDelete(i)
NextFault == CallsFault("A") \/ Net("A", {TRUE}, BOOLEAN)
SpecFault == InitTbl /\ [][NextFault]_vars

(* ------------------------------ the claims ---------------------------- *)
Conflict == "raise:StorageException:out of sync"
\* caller i's last call was update(), and it got past its first two checks
\* (pending changes, a primary key)
UpdDone(i) == pc[i] = "idle" /\ outcome[i].op = "update" /\ pre[i].key # 0
\* the content differed from / equalled what the held revision was computed from
ContentChanged(i) == ValidRev(pre[i].held) /\ RevHash(pre[i].held) # <<pre[i].hash>>
ContentSame(i) == ValidRev(pre[i].held) /\ RevHash(pre[i].held) = <<pre[i].hash>>
\* the held revision was / was not the one stored when update() was called
InSync(i) == pre[i].stored = <<pre[i].held>>
Stale(i) == pre[i].stored # <<>> /\ pre[i].stored # <<pre[i].held>>

\* C1: two copies of one persisted revisioned record, read at the same stored
\* revision; A changes a field and updates, then B changes a field and
\* updates: A's update is applied, and B's is refused as out of sync and
\* writes nothing.
C1_SequentialLostUpdate ==
    \A a, b \in Insts :
        (/\ a # b /\ UpdDone(a) /\ UpdDone(b)
         /\ calls[a] = 2 /\ calls[b] = 2 /\ pre[a].at = 2 /\ pre[b].at = 4
         /\ pre[a].held = StoredDoc["_rev"] /\ pre[b].held = StoredDoc["_rev"]
         /\ ContentChanged(a) /\ ContentChanged(b) /\ InSync(a))
        => /\ outcome[a].res = "ret:True"
           /\ outcome[b].res = Conflict
           /\ writes[b] = 0

\* C2: two callers hold the same stored revision of a record and both call
\* update() with changed content: under every interleaving at most one of the
\* updates is applied and the other is refused as out of sync.
C2_AtMostOneWriter ==
    \A a, b \in Insts :
        (/\ a # b /\ UpdDone(a) /\ UpdDone(b)
         /\ pre[a].key = pre[b].key /\ pre[a].held = pre[b].held
         /\ ContentChanged(a) /\ ContentChanged(b) /\ InSync(a) /\ InSync(b))
        => /\ ~(outcome[a].res = "ret:True" /\ outcome[b].res = "ret:True")
           /\ (outcome[a].res = Conflict \/ outcome[b].res = Conflict)

\* C3: a revisioned update() runs at most one write; when the stored revision
\* is not the one the instance held, it raises the out-of-sync
\* StorageException and runs no write.
C3_MismatchIsConflict ==
    \A i \in Insts :
        (conf.revisions /\ outcome[i].op = "update")
        => /\ writes[i] <= 1
           /\ (/\ UpdDone(i) /\ ContentChanged(i) /\ Stale(i)
               /\ BackendPluckRev(table, pre[i].key) = pre[i].stored)
              => (outcome[i].res = Conflict /\ writes[i] = 0)

\* C4: after a successful insert() of a revisioned document the instance's
\* revision has version 1 and its hash is the content hash of the instance's
\* field mapping without the revision field.
C4_InitialRevision ==
    \A i \in Insts :
        (conf.revisions /\ pc[i] = "idle" /\ outcome[i].op = "insert" /\ outcome[i].res = "ret:key")
        => /\ "_rev" \in DOMAIN dData[i]
           /\ ValidRev(dData[i]["_rev"])
           /\ RevVer(dData[i]["_rev"]) = 1
           /\ RevHash(dData[i]["_rev"]) = <<md5hex(Del(dData[i], "_rev"))>>

\* C5: update() of a revisioned, persisted document whose content changed and
\* whose revision is the stored one succeeds and leaves the instance with the
\* version raised by exactly 1 and another hash.
C5_VersionPlusOne ==
    \A i \in Insts :
        (conf.revisions /\ UpdDone(i) /\ ContentChanged(i) /\ InSync(i))
        => /\ outcome[i].res = "ret:True"
           /\ "_rev" \in DOMAIN dData[i]
           /\ ValidRev(dData[i]["_rev"])
           /\ RevVer(dData[i]["_rev"]) = RevVer(pre[i].held) + 1
           /\ RevHash(dData[i]["_rev"]) # RevHash(pre[i].held)

\* C6: update() of a revisioned document with pending changes but unchanged
\* content returns false, runs no write, and the instance still holds the
\* revision string it held before.
C6_NoChangeIsNoOp ==
    \A i \in Insts :
        (conf.revisions /\ UpdDone(i) /\ ContentSame(i))
        => /\ outcome[i].res = "ret:False"
           /\ writes[i] = 0
           /\ "_rev" \in DOMAIN dData[i]
           /\ dData[i]["_rev"] = pre[i].held

\* C7: with revisioning on, every stored record carries a revision; a record
\* that appears has version 1, and the version of a record that stays never
\* decreases.
C7_VersionMonotonic ==
    [][conf.revisions =>
        \A k \in DOMAIN table' :
            /\ "_rev" \in DOMAIN table'[k]
            /\ ValidRev(table'[k]["_rev"])
            /\ IF k \in DOMAIN table
               THEN RevVer(table'[k]["_rev"]) >= RevVer(table[k]["_rev"])
               ELSE RevVer(table'[k]["_rev"]) = 1]_vars
\* an insert has just replaced a stored record by another one
C7_Witness ==
    /\ conf.revisions
    /\ pc["A"] = "exit" /\ frame["A"].op = "insert" /\ frame["A"].dRes.replaced = 1

\* C8: with revisioning on, an update() called on an instance that holds no
\* valid "<version>-<hash>" revision fails before any write is run.
C8_NoWriteWithoutRevision ==
    \A i \in Insts :
        (conf.revisions /\ outcome[i].op = "update" /\ pre[i].key # 0 /\ ~ValidRev(pre[i].held))
        => /\ pc[i] = "idle"
           /\ writes[i] = 0
           /\ outcome[i].res \in {"raise:KeyError", "raise:AttributeError"}
\* update() was called with pending changes and a primary key but no revision
C8_Witness ==
    /\ conf.revisions
    /\ UpdDone("A") /\ pre["A"].held = <<>> /\ outcome["A"].res = "raise:KeyError"

\* C9: a connection acquired by connect_with is closed exactly once, however
\* the scope ends (fall through, return inside it, exception); an exception
\* raised inside the scope reaches the caller; when a call has returned or
\* raised, none is open.
C9_ReleasedExactlyOnce ==
    /\ [](\A i \in Insts :
            /\ con[i].opened <= 1
            /\ pc[i] \in {"scope", "exit"} => (con[i].opened = 1 /\ con[i].closed = 0)
            /\ pc[i] \in {"idle", "connect"} => con[i].closed = con[i].opened
            /\ (pc[i] = "idle" /\ outcome[i].res \in {"ret:key", "ret:True", "ret:None", "ret:instance", "raise:ReqlError"})
                  => (con[i].opened = 1 /\ con[i].closed = 1))
    /\ [][\A i \in Insts :
            (pc[i] = "exit" /\ pc'[i] # "exit")
            => /\ pc'[i] = "idle"
               /\ con'[i].opened = con[i].opened
               /\ con'[i].closed = con[i].closed + 1
               /\ frame[i].pend = "raise:ReqlError" => outcome'[i].res = "raise:ReqlError"]_vars
\* a query raised inside the scope, and the call has ended with that exception
C9_Witness ==
    /\ pc["A"] = "idle" /\ outcome["A"].res = "raise:ReqlError"
    /\ con["A"].opened = 1 /\ con["A"].closed = 1

\* C10: _connection makes at most 3 connects, sleeping between two of them;
\* it hands out the first connection that is made; after 3 driver errors it
\* raises StorageException with the arguments of the last of them.
C10_BoundedRetry ==
    \A i \in Insts :
        /\ acq[i].connects <= 3
        /\ acq[i].sleeps <= 2
        /\ pc[i] = "connect" => (acq[i].connects = Len(acq[i].errs) /\ acq[i].sleeps = acq[i].connects)
        /\ pc[i] \in {"scope", "exit"}
              => (acq[i].connects = Len(acq[i].errs) + 1 /\ acq[i].sleeps = Len(acq[i].errs)
                  /\ con[i].opened = 1)
        /\ (pc[i] = "idle" /\ outcome[i].res = "raise:StorageException:driver")
              => (/\ acq[i].connects = 3 /\ acq[i].sleeps = 2 /\ Len(acq[i].errs) = 3
                  /\ outcome[i].args = acq[i].errs[3]
                  /\ con[i].opened = 0)
\* three connects failed, the last with another error than the first
C10_Witness ==
    /\ pc["A"] = "idle" /\ outcome["A"].res = "raise:StorageException:driver"
    /\ Len(acq["A"].errs) = 3 /\ acq["A"].errs[1] # acq["A"].errs[3]

\* C11: _connection for a server name that is not registered raises
\* ValueError at once: no connect has been or is made, no sleep, no retry.
C11_UnregisteredFailsAtOnce ==
    /\ [](\A i \in Insts :
            (pc[i] = "connect" /\ conf.server \notin DOMAIN mdServers)
            => (acq[i] = NoAcq /\ con[i] = NoCon))
    /\ [][\A i \in Insts :
            (/\ pc[i] = "connect" /\ conf.server \notin DOMAIN mdServers
             /\ mdServers' = mdServers
             /\ <<pc[i], acq[i], con[i]>>' # <<pc[i], acq[i], con[i]>>)
            => /\ pc'[i] = "idle"
               /\ outcome'[i].res = "raise:ValueError"
               /\ acq'[i] = NoAcq /\ con'[i] = NoCon
               /\ table' = table]_vars
\* an insert() ended with ValueError while no server was registered
C11_Witness ==
    /\ mdServers = EmptyDict
    /\ pc["A"] = "idle" /\ outcome["A"].op = "insert" /\ outcome["A"].res = "raise:ValueError"
    /\ acq["A"].connects = 0 /\ acq["A"].sleeps = 0

\* C12: update() of an instance with no pending changes returns False with no
\* connection, no backend call and the instance as it was, with or without a
\* primary key.
C12_NothingPendingIsNoOp ==
    \A i \in Insts :
        (outcome[i].op = "update" /\ ~Truthy(pre[i].ch))
        => /\ pc[i] = "idle"
           /\ outcome[i].res = "ret:False"
           /\ con[i] = NoCon /\ acq[i] = NoAcq /\ writes[i] = 0
           /\ dData[i] = pre[i].data
           /\ dChanged[i] = pre[i].ch
\* update() was called on a clean instance without a primary key
C12_Witness ==
    /\ pc["A"] = "idle" /\ outcome["A"].op = "update" /\ outcome["A"].res = "ret:False"
    /\ ~Truthy(pre["A"].ch) /\ Primary \notin DOMAIN pre["A"].data
    /\ "a" \in DOMAIN pre["A"].data

\* C13: update() of an instance with pending changes and no primary key raises
\* StorageException with no connection, no backend call and the instance as
\* it was.
C13_NoPrimaryKeyUpdateRaises ==
    \A i \in Insts :
        (outcome[i].op = "update" /\ Truthy(pre[i].ch) /\ Primary \notin DOMAIN pre[i].data)
        => /\ pc[i] = "idle"
           /\ outcome[i].res = "raise:StorageException:no primary key"
           /\ con[i] = NoCon /\ acq[i] = NoAcq /\ writes[i] = 0
           /\ dData[i] = pre[i].data
           /\ dChanged[i] = pre[i].ch
\* update() was called with a field set and no primary key
C13_Witness ==
    /\ pc["A"] = "idle" /\ outcome["A"].op = "update"
    /\ outcome["A"].res = "raise:StorageException:no primary key"
    /\ ~pre["A"].ch.full /\ "a" \in DOMAIN pre["A"].ch.fields
    /\ Primary \notin DOMAIN pre["A"].data

\* C14: when update() has returned True the instance has no pending changes;
\* when it has returned False or raised, the changes pending at the call are
\* still pending.
C14_ClearedExactlyOnSuccess ==
    \A i \in Insts :
        (outcome[i].op = "update" /\ pc[i] = "idle")
        => IF outcome[i].res = "ret:True"
           THEN dChanged[i] = NoChanges
           ELSE dChanged[i] = pre[i].ch
\* an update() with pending changes has returned True
C14_Witness ==
    /\ pc["A"] = "idle" /\ outcome["A"].op = "update" /\ outcome["A"].res = "ret:True"
    /\ Truthy(pre["A"].ch) /\ dChanged["A"] = NoChanges

\* C15: the write of update() is a replace by the whole field mapping when
\* replace=True was passed or a field was deleted, and otherwise an update by
\* exactly the fields set since the instance was last written or loaded, with
\* their current values.
C15_WriteShape ==
    \A i \in Insts :
        frame[i].op = "update"
        => LET cur == frame[i].cur IN
           /\ (cur.kind = "replace") <=> (frame[i].replace \/ pre[i].ch.full)
           /\ cur.kind = "replace" => cur.doc = pre[i].data
           /\ cur.kind = "update"
                 => /\ DOMAIN cur.doc = dSince[i]
                    /\ \A f \in DOMAIN cur.doc : f \in DOMAIN pre[i].data /\ cur.doc[f] = pre[i].data[f]

\* C16: when insert() has succeeded the instance has no pending changes.
C16_InsertClearsChanges ==
    \A i \in Insts :
        (pc[i] = "idle" /\ outcome[i].op = "insert" /\ outcome[i].res = "ret:key")
        => dChanged[i] = NoChanges

\* C17: insert() raises StorageException when the backend reports neither an
\* inserted nor a replaced row.
C17_ZeroRowsInsertRaises ==
    [][\A i \in Insts :
        (/\ pc[i] = "exit" /\ frame[i].op = "insert" /\ frame[i].pend = "fall"
         /\ frame[i].dRes.inserted # 1 /\ frame[i].dRes.replaced # 1
         /\ pc'[i] = "idle")
        => outcome'[i].res \in {"raise:StorageException:driver",
                                "raise:StorageException:no primary key",
                                "raise:StorageException:out of sync"}]_vars

\* C18: with auto_id, an insert() whose write inserted or replaced a row
\* returns the key of that row and leaves it in the instance, whether the
\* caller gave a primary key or not.
C18_AutoIdInsertReturnsKey ==
    [][\A i \in Insts :
        (/\ conf.auto_id
         /\ pc[i] = "exit" /\ frame[i].op = "insert" /\ frame[i].pend = "fall"
         /\ (frame[i].dRes.inserted = 1 \/ frame[i].dRes.replaced = 1)
         /\ pc'[i] = "idle")
        => /\ outcome'[i].res = "ret:key"
           /\ Primary \in DOMAIN dData'[i]
           /\ dData'[i][Primary] \in DOMAIN table'
           /\ outcome'[i].args = dData'[i][Primary]]_vars

\* C19: delete() of an instance without a primary key raises StorageException
\* with no connection, no backend call and the instance as it was.
C19_NoPrimaryKeyDeleteRaises ==
    \A i \in Insts :
        (outcome[i].op = "delete" /\ Primary \notin DOMAIN pre[i].data)
        => /\ pc[i] = "idle"
           /\ outcome[i].res = "raise:StorageException:no primary key"
           /\ con[i] = NoCon /\ acq[i] = NoAcq /\ writes[i] = 0
           /\ dData[i] = pre[i].data
           /\ dChanged[i] = pre[i].ch
\* delete() was called on an instance that holds a field but no primary key
C19_Witness ==
    /\ pc["A"] = "idle" /\ outcome["A"].op = "delete"
    /\ outcome["A"].res = "raise:StorageException:no primary key"
    /\ DOMAIN pre["A"].data = {"a"}

\* C20: the query of delete() removes the record of the instance's primary key
\* and no other; one row deleted: the call returns True and the instance
\* loses its primary key; no row deleted: it returns False and the instance
\* keeps it; nothing else of the instance changes.
C20_DeleteByPrimaryKey ==
    /\ [](\A i \in Insts :
            (outcome[i].op = "delete" /\ pc[i] = "idle" /\ Primary \in DOMAIN pre[i].data)
            => /\ dChanged[i] = pre[i].ch
               /\ outcome[i].res = "ret:True" => dData[i] = Del(pre[i].data, Primary)
               /\ outcome[i].res # "ret:True" => dData[i] = pre[i].data)
    /\ [][\A i \in Insts :
            /\ (pc[i] = "scope" /\ frame[i].op = "delete" /\ pc'[i] = "exit")
               => /\ frame[i].cur.key = pre[i].data[Primary]
                  /\ table' = Del(table, frame[i].cur.key)
                  /\ frame'[i].dRes.deleted = 1 <=> frame[i].cur.key \in DOMAIN table
                  /\ IF frame'[i].dRes.deleted = 1
                     THEN frame'[i].pend = "fall" /\ dData'[i] = Del(dData[i], Primary)
                     ELSE frame'[i].pend = "ret:False" /\ dData'[i] = dData[i]
            /\ (pc[i] = "exit" /\ frame[i].op = "delete" /\ pc'[i] = "idle")
               => /\ dData'[i] = dData[i]
                  /\ outcome'[i].res = (IF frame[i].pend = "fall" THEN "ret:True" ELSE frame[i].pend)]_vars
\* delete() found no record of the instance's key and has returned False
C20_Witness ==
    /\ pc["A"] = "idle" /\ outcome["A"].op = "delete" /\ outcome["A"].res = "ret:False"
    /\ Primary \in DOMAIN dData["A"] /\ dData["A"] = pre["A"].data
    /\ dData["A"][Primary] \notin DOMAIN table

\* C21: an instance on which delete() has succeeded is never persisted again:
\* no later insert() on it succeeds.
C21_DeletedIsTerminal ==
    \A i \in Insts :
        deleted[i] => ~(pc[i] = "idle" /\ outcome[i].op = "insert" /\ outcome[i].res = "ret:key")

\* C22: s(field, value) raises KeyError for a field the schema does not have and
\* ValueError for a value the field's node refuses, leaving the data and the
\* changed fields as they were; otherwise it stores the cleaned value and,
\* when the changed fields are a dict, records the field there.
C22_SetValidatesAndCleans ==
    [][\A i \in Insts :
        (calls'[i] = calls[i] + 1 /\ outcome'[i].op = "s" /\ outcome'[i].field \in {"_id", "a", "zz"})
        => LET f == outcome'[i].field
               v == outcome'[i].args
               num == IF v >= 100 THEN v - 100 ELSE v
               ok == IF f = "_id" THEN num \in Keys ELSE num \in Vals
           IN  IF f \notin Fields
               THEN /\ outcome'[i].res = "raise:KeyError"
                    /\ dData'[i] = dData[i] /\ dChanged'[i] = dChanged[i]
               ELSE IF ~ok
               THEN /\ outcome'[i].res = "raise:ValueError"
                    /\ dData'[i] = dData[i] /\ dChanged'[i] = dChanged[i]
               ELSE /\ outcome'[i].res = "ret:self"
                    /\ dData'[i] = Put(dData[i], f, num)
                    /\ dChanged'[i] = IF dChanged[i].full THEN dChanged[i]
                                      ELSE [full |-> FALSE, fields |-> Put(dChanged[i].fields, f, num)]]_vars
\* s() was passed a number as a string and has stored the number
C22_Witness ==
    /\ outcome["A"].op = "s" /\ outcome["A"].field = "a" /\ outcome["A"].res = "ret:self"
    /\ outcome["A"].args >= 100
    /\ dData["A"]["a"] = outcome["A"].args - 100
    /\ ~dChanged["A"].full /\ "a" \in DOMAIN dChanged["A"].fields

\* C23: d(field) raises KeyError and changes nothing when the instance does not
\* hold the field; otherwise it removes the field and sets the changed fields
\* to True, and they stay True through every later call on the instance but
\* an update() that returns True.
C23_UnsetForcesReplace ==
    [][\A i \in Insts :
        /\ (calls'[i] = calls[i] + 1 /\ outcome'[i].op = "d")
           => LET f == outcome'[i].field IN
              IF f \notin DOMAIN dData[i]
              THEN /\ outcome'[i].res = "raise:KeyError"
                   /\ dData'[i] = dData[i] /\ dChanged'[i] = dChanged[i]
              ELSE /\ outcome'[i].res = "ret:self"
                   /\ dData'[i] = Del(dData[i], f)
                   /\ dChanged'[i] = AllChanged
        /\ (dChanged[i].full /\ ~dChanged'[i].full)
           => \/ outcome'[i].op \in {"init", "get"}
              \/ outcome'[i].op = "update" /\ outcome'[i].res = "ret:True"]_vars
\* a field was set after one was removed, and the changed fields are still True
C23_Witness ==
    /\ outcome["A"].op = "s" /\ outcome["A"].res = "ret:self" /\ outcome["A"].field = "a"
    /\ dChanged["A"].full /\ "a" \in DOMAIN dData["A"]

\* caller i's last call was get(), and it is over
GetDone(i) == pc[i] = "idle" /\ outcome[i].op = "get"
\* the None components of a tuple
Wildcards(t) == {n \in 1..Len(t) : t[n] = NoneVal}
\* the connection of the call was opened and closed, once each
Released(i) == con[i].opened = 1 /\ con[i].closed = 1
\* the records handed out, as a set
RowSet(i) == {rows[i][n] : n \in 1..Len(rows[i])}

\* C24: a get() by a declared index whose tuple has more than one None raises
\* StorageException, whatever the length of the tuple and the positions of the
\* Nones; the call runs no query, and the connection it opened is closed.
C24_TwoWildcardsRaise ==
    \A i \in Insts :
        (/\ GetDone(i)
         /\ pre[i].q.index \in DOMAIN conf.indexes
         /\ pre[i].q.id.kind = "tuple"
         /\ Cardinality(Wildcards(pre[i].q.id.v)) > 1)
        => /\ outcome[i].res = "raise:StorageException:more than one None"
           /\ runs[i] = 0
           /\ Released(i)
\* a tuple of three with None first and last was refused
C24_Witness ==
    /\ GetDone("A") /\ outcome["A"].res = "raise:StorageException:more than one None"
    /\ pre["A"].q.id.kind = "tuple" /\ Wildcards(pre["A"].q.id.v) = {1, 3}
    /\ runs["A"] = 0 /\ Released("A")

\* C25: a tuple with one None at position n becomes between(lo, hi) on the
\* index, lo and hi being the tuple with r.minval and r.maxval at n; on the
\* index over (a, b), (x, None) hands out exactly the records with a = x (and
\* some b), and a tuple without None exactly the records with that a and b.
C25_OneWildcardIsRange ==
    \A i \in Insts :
        /\ (pc[i] = "scope" /\ frame[i].op = "get" /\ frame[i].q.id.kind = "tuple" /\ frame[i].q.index # ""
            /\ Cardinality(Wildcards(frame[i].q.id.v)) = 1)
           => LET t == frame[i].q.id.v
                  n == CHOOSE m \in Wildcards(t) : TRUE
                  plan == Translate(frame[i].q)
              IN  /\ plan.err = "" /\ plan.sel = "between" /\ plan.index = frame[i].q.index
                  /\ Len(plan.lo) = Len(t) /\ Len(plan.hi) = Len(t)
                  /\ \A m \in 1..Len(t) :
                        /\ plan.lo[m] = (IF m = n THEN r_minval ELSE t[m])
                        /\ plan.hi[m] = (IF m = n THEN r_maxval ELSE t[m])
        /\ (GetDone(i) /\ pre[i].q.index = "ab" /\ "ab" \in DOMAIN bIdx /\ pre[i].q.limit = 0
            /\ pre[i].q.id.kind = "tuple" /\ Len(pre[i].q.id.v) = 2 /\ pre[i].q.id.v[1] # NoneVal)
           => LET t == pre[i].q.id.v
                  want == {table[k] : k \in {j \in DOMAIN table :
                              /\ "b" \in DOMAIN table[j]
                              /\ table[j]["a"] = t[1]
                              /\ t[2] # NoneVal => table[j]["b"] = t[2]}}
              IN  /\ outcome[i].res = "ret:list"
                  /\ RowSet(i) = want
                  /\ Len(rows[i]) = Cardinality(want)
\* (0, None) on the index over (a, b) handed out the one record with a = 0 and
\* left out a record with another a
C25_Witness ==
    /\ GetDone("A") /\ pre["A"].q.index = "ab" /\ pre["A"].q.id = IdTuple(<<0, NoneVal>>)
    /\ outcome["A"].res = "ret:list" /\ Len(rows["A"]) = 1 /\ rows["A"][1]["a"] = 0
    /\ \E k \in DOMAIN table : "b" \in DOMAIN table[k] /\ table[k]["a"] # 0

\* C26: a get() naming an index ends in StorageException 'no index' when the
\* index is unknown: before any connection is made when the subtype does not
\* declare it, and from the backend's "Index ... does not exist" error when the
\* table lacks it; another operation error of the backend (the table is
\* missing) reaches the caller as it is.
C26_UnknownIndex ==
    \A i \in Insts :
        (GetDone(i) /\ pre[i].q.index # "")
        => IF pre[i].q.index \notin DOMAIN conf.indexes
           THEN /\ outcome[i].res = "raise:StorageException:no index"
                /\ con[i].opened = 0 /\ acq[i].connects = 0 /\ runs[i] = 0
           ELSE IF ~tblExists
           THEN outcome[i].res = "raise:ReqlOpFailedError:Table" /\ Released(i)
           ELSE IF pre[i].q.index \notin DOMAIN bIdx
           THEN outcome[i].res = "raise:StorageException:no index" /\ runs[i] = 1 /\ Released(i)
           ELSE outcome[i].res = "ret:list"
\* the table was there without the declared index, and the backend's error
\* came out as 'no index'
C26_Witness ==
    /\ GetDone("A") /\ outcome["A"].res = "raise:StorageException:no index"
    /\ pre["A"].q.index \in DOMAIN conf.indexes /\ tblExists /\ pre["A"].q.index \notin DOMAIN bIdx
    /\ runs["A"] = 1 /\ Released("A")

\* C27: by primary key, without filter and limit: get(None) hands out a list,
\* the empty list on an empty table; get(X) for one key hands out None when no
\* record has the key and the record when one has; get of a list of keys
\* hands out the list of the records that have one of the keys.
C27_EmptyResultsAreValues ==
    \A i \in Insts :
        (GetDone(i) /\ pre[i].q.index = "" /\ DOMAIN pre[i].q.filter = {} /\ pre[i].q.limit = 0)
        => LET id == pre[i].q.id IN
           CASE id.kind = "none" ->
                   /\ outcome[i].res = "ret:list"
                   /\ RowSet(i) = {table[k] : k \in DOMAIN table}
                   /\ Len(rows[i]) = Cardinality(DOMAIN table)
             [] id.kind = "one" ->
                   IF id.v[1] \in DOMAIN table
                   THEN outcome[i].res = "ret:instance" /\ dData[i] = table[id.v[1]]
                   ELSE outcome[i].res = "ret:None"
             [] OTHER ->
                   /\ outcome[i].res = "ret:list"
                   /\ RowSet(i) = {table[k] : k \in {j \in DOMAIN table : \E n \in 1..Len(id.v) : id.v[n] = j}}
\* a key no record has gave None
C27_Witness ==
    /\ GetDone("A") /\ pre["A"].q.index = "" /\ DOMAIN pre["A"].q.filter = {} /\ pre["A"].q.limit = 0
    /\ pre["A"].q.id = IdOne(MaxKey + 1) /\ outcome["A"].res = "ret:None" /\ table # EmptyDict

\* the records of the table a get() by primary key or by the index on a selects
Selected(q) ==
    {table[k] : k \in {j \in DOMAIN table :
        /\ q.id.kind = "none"
           \/ \E n \in 1..Len(q.id.v) : table[j][IF q.index = "" THEN Primary ELSE "a"] = q.id.v[n]
        /\ \A f \in DOMAIN q.filter : table[j][f] = q.filter[f]}}

\* C28: get(..., limit=1) by primary key (all records, one key, a list of keys,
\* with or without a filter) or by the index on a hands out None when nothing
\* is selected and else one of the selected records, and does not raise.
C28_LimitOneIsRecordOrNull ==
    \A i \in Insts :
        (GetDone(i) /\ pre[i].q.limit = 1 /\ pre[i].q.index \in {"", "a"})
        => IF Selected(pre[i].q) = {}
           THEN outcome[i].res = "ret:None"
           ELSE outcome[i].res = "ret:instance" /\ dData[i] \in Selected(pre[i].q)

\* the declared definitions are all of a recognised shape
AllGood(indexes) == \A n \in DOMAIN indexes : indexes[n].shape \in {"none", "str", "list"}
\* the step of caller i in which tableCreate() runs its queries, and the one
\* in which it leaves the connection scope
CreateRuns(i) == pc[i] = "scope" /\ pc'[i] = "exit" /\ frame[i].op = "tableCreate"
CreateEnds(i) == pc[i] = "exit" /\ pc'[i] = "idle" /\ frame[i].op = "tableCreate"

\* C29: with definitions of recognised shapes, tableCreate() on a database
\* without the table makes the table and every declared index and returns
\* True; on a database that has the table it changes nothing and returns
\* False; the backend's "already exists" error does not reach the caller.
C29_CreateTwice ==
    [][\A i \in Insts :
        /\ (CreateRuns(i) /\ ~frame'[i].pend = "raise:ReqlError" /\ AllGood(conf.indexes))
           => IF tblExists
              THEN frame'[i].pend = "ret:False" /\ UNCHANGED <<tblExists, bIdx, table>>
              ELSE /\ frame'[i].pend = "fall"
                   /\ tblExists'
                   /\ DOMAIN bIdx' = DOMAIN conf.indexes
        /\ CreateEnds(i)
           => outcome'[i].res = (IF frame[i].pend = "fall" THEN "ret:True" ELSE frame[i].pend)]_vars
\* the second of two calls returned False: the table, absent at first, is there
\* with its indexes
C29_Witness ==
    /\ pc["A"] = "idle" /\ calls["A"] = 2 /\ outcome["A"].op = "tableCreate" /\ outcome["A"].res = "ret:False"
    /\ tblExists /\ DOMAIN bIdx = {"a", "ib", "ab"}

\* C30: every index tableCreate() makes is, for a definition that is None or
\* empty, on the field named like the index; for a string, on the field it
\* names; for a list, the compound index on its fields in their order. A
\* definition of another shape ends the call with StorageException, which
\* reaches the caller (the call does not return False), and the connection is
\* closed.
C30_IndexShapes ==
    [][\A i \in Insts :
        /\ (CreateRuns(i) /\ ~frame'[i].pend = "raise:ReqlError" /\ ~tblExists)
           => /\ \A n \in DOMAIN bIdx' :
                    LET def == conf.indexes[n] IN
                    /\ def.shape = "none" => bIdx'[n] = [arr |-> FALSE, fields |-> <<n>>]
                    /\ def.shape = "str" => bIdx'[n] = [arr |-> FALSE, fields |-> def.fields]
                    /\ def.shape = "list" => bIdx'[n] = [arr |-> TRUE, fields |-> def.fields]
                    /\ def.shape # "other"
              /\ IF AllGood(conf.indexes)
                 THEN DOMAIN bIdx' = DOMAIN conf.indexes /\ frame'[i].pend = "fall"
                 ELSE frame'[i].pend = "raise:StorageException:index format"
        /\ (CreateEnds(i) /\ frame[i].pend = "raise:StorageException:index format")
           => /\ outcome'[i].res = "raise:StorageException:index format"
              /\ con'[i].opened = 1 /\ con'[i].closed = 1]_vars
\* a definition of another shape ended the call after an index had been made
C30_Witness ==
    /\ pc["A"] = "idle" /\ outcome["A"].op = "tableCreate"
    /\ outcome["A"].res = "raise:StorageException:index format"
    /\ Released("A") /\ DOMAIN bIdx # {} /\ tblExists

\* C31: tableCreate() returns False only for a table that was there when it
\* was called: another runtime error of the backend (the database is missing,
\* an index_create fails after the table was made) reaches the caller.
C31_OtherFaultsSurface ==
    \A i \in Insts :
        (pc[i] = "idle" /\ outcome[i].op = "tableCreate" /\ outcome[i].res = "ret:False") => pre[i].had

\* C32: server(name, details) for a registered name without update returns
\* False and leaves the profiles as they are; with update, or for a new name,
\* it returns True and stores the details under the name; it never changes
\* the profile of another name.
C32_ProfileImmutable ==
    [][\A name \in ProfileNames, details \in Profiles, upd \in BOOLEAN :
        (modcall' # modcall /\ modcall'.op = "server" /\ modcall'.name = name
         /\ modcall'.details = details /\ modcall'.update = upd)
        => /\ IF name \in DOMAIN mdServers /\ ~upd
              THEN ~modcall'.ok /\ mdServers' = mdServers
              ELSE /\ modcall'.ok
                   /\ name \in DOMAIN mdServers' /\ mdServers'[name] = details
           /\ \A other \in ProfileNames \ {name} :
                 /\ other \in DOMAIN mdServers' <=> other \in DOMAIN mdServers
                 /\ other \in DOMAIN mdServers => mdServers'[other] = mdServers[other]]_vars
\* a second registration was refused and the first profile kept, with
\* another name registered
C32_Witness ==
    /\ modcall.op = "server" /\ ~modcall.ok /\ ~modcall.update
    /\ mdServers[modcall.name] # modcall.details
    /\ DOMAIN mdServers = ProfileNames

\* C33: globalPrefix(v) with a string v, the empty one too, sets the prefix to
\* v; globalPrefix() returns the prefix; the database name info() resolves is
\* the prefix, the configured name and, when a postfix is passed, '_' and the
\* postfix.
C33_PrefixSetAndApplied ==
    /\ (modcall.op = "globalPrefix" /\ modcall.given) => msPrefix = modcall.v
    /\ (modcall.op = "globalPrefix" /\ ~modcall.given) => (~modcall.none /\ modcall.str = msPrefix)
    /\ modcall.op = "info"
       => modcall.str = msPrefix \o ConfDb \o (IF modcall.given THEN <<"_">> \o modcall.v ELSE <<>>)

\* what get(key) hands out on table t: the cleaned record, or <<>> for None
Fetched(t, key) ==
    LET plan == Translate([NoQuery EXCEPT !.id = IdOne(key)])
        out == GetResult(plan, RunQuery(plan, t, TRUE, EmptyDict, <<>>))
    IN  IF out.res = "ret:instance" THEN <<TreeClean(out.rows[1])>> ELSE <<>>

\* C34: when insert() returns the key, get of that key hands out a document
\* in which every field the instance holds, the primary key and the revision
\* of a revisioned subtype among them, has the value the instance holds; and
\* unless the insert was merged into a stored record (conflict 'update') the
\* document has no other field.
C34_RoundTrip ==
    [][\A i \in Insts :
        (pc[i] = "exit" /\ pc'[i] = "idle" /\ frame[i].op = "insert" /\ outcome'[i].res = "ret:key")
        => LET got == Fetched(table', outcome'[i].args) IN
           /\ Primary \in DOMAIN dData'[i] /\ dData'[i][Primary] = outcome'[i].args
           /\ conf.revisions => "_rev" \in DOMAIN dData'[i]
           /\ got # <<>>
           /\ \A f \in DOMAIN dData'[i] : f \in DOMAIN got[1] /\ got[1][f] = dData'[i][f]
           /\ frame[i].conflict # "update" => got[1] = dData'[i]]_vars
\* a revisioned record inserted without a key came back with the generated
\* key and the revision
C34_Witness ==
    /\ pc["A"] = "idle" /\ outcome["A"].op = "insert" /\ outcome["A"].res = "ret:key"
    /\ conf.revisions /\ conf.auto_id /\ outcome["A"].args # 1
    /\ DOMAIN dData["A"] = {"_id", "_rev", "a"}
    /\ Fetched(table, outcome["A"].args) = <<dData["A"]>>

C37_DirtySetConsistent ==
    \A i \in Insts :
        (~deleted[i] /\ outcome[i].op # "delete" /\ ~dChanged[i].full)
        => \A f \in DOMAIN dChanged[i].fields :
              /\ f \in DOMAIN dData[i]
              /\ dChanged[i].fields[f] = dData[i][f]

\* the values of a in the records S, from the least on
RECURSIVE AscVals(_)
AscVals(S) ==
    IF S = {} THEN <<>>
    ELSE LET rec == CHOOSE x \in S : \A y \in S : x["a"] <= y["a"]
         IN  <<rec["a"]>> \o AscVals(S \ {rec})

\* C38: get() of all records or of a list of keys, ordered by a and with a
\* limit N > 0, does not raise, and hands out the first N of the selected
\* records taken in the order of a: the values of a it hands out are the N
\* least ones among the selected records, in ascending order.
C38_LimitAfterOrder ==
    \A i \in Insts :
        (GetDone(i) /\ pre[i].q.orderby = "a" /\ pre[i].q.limit > 0 /\ pre[i].q.id.kind \in {"none", "list"})
        => /\ outcome[i].res \in {"ret:list", "ret:instance", "ret:None"}
           /\ [n \in 1..Len(rows[i]) |-> rows[i][n]["a"]] = FirstN(AscVals(Selected(pre[i].q)), pre[i].q.limit)

====
